---- MODULE Spec2Model ----
(***************************************************************************)
(* Model of modules/PriorityAnalyzer.py: the per-frame alert engine with   *)
(* its traffic-light memory and its tracked vehicle / pedestrian tables.   *)
(*                                                                         *)
(* Units and encodings                                                     *)
(*  - distances are integers in tenths of a metre (2.0 m = 20), so the     *)
(*    3.0 m thresholds are 30 and the 0.5 m hysteresis delta is 5;         *)
(*  - a bbox is the tuple <<x, y, w, h>> of the source;                    *)
(*  - Python None is "None" for the state string and <<>> for an optional  *)
(*    distance, a present distance d being <<d>>;                          *)
(*  - a dict is the sequence of its items in insertion order (Python dicts *)
(*    iterate in insertion order), each item a record carrying its key;    *)
(*  - the f-string keys of the tracked tables are the tuples of the        *)
(*    values they format (the formatting is injective on them);            *)
(*  - an IOU is the exact fraction <<numerator, denominator>>.             *)
(***************************************************************************)
EXTENDS Integers, Sequences, FiniteSets, TLC

VARIABLES
    last_traffic_light_state,     \* self.last_traffic_light_state
    last_traffic_light_distance,  \* self.last_traffic_light_distance
    last_reported_cars,           \* self.last_reported_cars
    last_reported_persons,        \* self.last_reported_persons
    frame_counter,                \* self.frame_counter
    detections,                   \* detections_summary of the latest analyze call
    frame_rgb,                    \* TRUE iff that call was given a frame image
    alerts,                       \* the list that call returned
    light_alerted,                \* history: the latest priority-1 alert emitted, <<>> if none
    cars_alerted_at,              \* history: per tracked car id, distance at its latest alert
    persons_alerted_at,           \* history: per tracked person id, distance at its latest alert
    car_seen_at,                  \* history: frame number of the latest frame holding a close vehicle
    second,                       \* a second PriorityAnalyzer: its attributes and its latest alert list
    fed,                          \* history: the frames given to each analyzer since construction / reset
    scene,                        \* the main loop's latest frame: anchor found or not, boxes detected
    calls,                        \* per thread, the analyze call it runs on the first analyzer
    sampled,                      \* the latest get_stable_depth call: arguments and outcome
    compensated,                  \* the latest compensate_distance call: arguments and outcome
    overlapped,                   \* the latest _calculate_iou call: arguments and outcome
    classified                    \* the latest classify_light_color call: arguments and outcome

vars == <<last_traffic_light_state, last_traffic_light_distance,
          last_reported_cars, last_reported_persons, frame_counter,
          detections, frame_rgb, alerts,
          light_alerted, cars_alerted_at, persons_alerted_at, car_seen_at,
          second, fed, scene, calls, sampled, compensated, overlapped, classified>>

\* what lies outside the one analyzer of a single-stream run
elsewhere == <<second, fed, scene, calls, sampled, compensated, overlapped, classified>>

(***************************************************************************)
(* Configuration of PriorityAnalyzer.__init__ and analyze's default width. *)
(***************************************************************************)
traffic_light_distance_threshold == 30
vehicle_distance_threshold == 30
person_distance_threshold == 30
bbox_iou_threshold_num == 3
bbox_iou_threshold_den == 10
object_timeout_frames == 720
distance_change_min == 5
img_width == 640

None == <<>>
Some(d) == <<d>>
NoState == "None"

Abs(n) == IF n < 0 THEN 0 - n ELSE n
Max(a, b) == IF a > b THEN a ELSE b
Min(a, b) == IF a < b THEN a ELSE b

(***************************************************************************)
(* Labels.  str.lower() and the substring tests `keyword in label` are     *)
(* tabulated over the label vocabulary of the model.                       *)
(***************************************************************************)
Labels == {"traffic light", "stop sign", "R_Signal", "G_Signal",
           "car", "Truck", "person", "Person", "dog"}

Lower(label) ==
    CASE label = "R_Signal" -> "r_signal"
      [] label = "G_Signal" -> "g_signal"
      [] label = "Truck"    -> "truck"
      [] label = "Person"   -> "person"
      [] OTHER              -> label

Upper(label) ==
    CASE Lower(label) = "car"    -> "CAR"
      [] Lower(label) = "truck"  -> "TRUCK"
      [] OTHER                   -> label

\* the keywords tested by the source that occur as substrings of a lowered label
Substrings(lowered) ==
    CASE lowered = "traffic light" -> {"traffic light"}
      [] lowered = "stop sign"     -> {"stop sign"}
      [] lowered = "r_signal"      -> {"r_signal"}
      [] lowered = "g_signal"      -> {"g_signal"}
      [] OTHER                     -> {}

Contains(keyword, lowered) == keyword \in Substrings(lowered)

traffic_light_keywords ==
    {"r_signal", "g_signal", "traffic light", "r_light", "g_light",
     "traffic_light", "trafficlight", "stop sign", "traffic signal"}

vehicle_labels == {"car", "truck", "bus", "motorbike", "bicycle", "vehicle"}

(***************************************************************************)
(* _calculate_iou and _get_position_text                                   *)
(***************************************************************************)
\* variant: the division is made whatever the union is (a denominator of 0
\* stands for ZeroDivisionError)
_calculate_iou_unguarded(bbox1, bbox2) ==
    LET x1_1 == bbox1[1]  y1_1 == bbox1[2]  w1 == bbox1[3]  h1 == bbox1[4]
        x1_2 == bbox2[1]  y1_2 == bbox2[2]  w2 == bbox2[3]  h2 == bbox2[4]
        xi1 == Max(x1_1, x1_2)
        yi1 == Max(y1_1, y1_2)
        xi2 == Min(x1_1 + w1, x1_2 + w2)
        yi2 == Min(y1_1 + h1, y1_2 + h2)
        inter_area == Max(0, xi2 - xi1) * Max(0, yi2 - yi1)
        union_area == w1 * h1 + w2 * h2 - inter_area
    IN  <<inter_area, union_area>>

_calculate_iou(bbox1, bbox2) ==
    LET x1_1 == bbox1[1]  y1_1 == bbox1[2]  w1 == bbox1[3]  h1 == bbox1[4]
        x1_2 == bbox2[1]  y1_2 == bbox2[2]  w2 == bbox2[3]  h2 == bbox2[4]
        x2_1 == x1_1 + w1
        y2_1 == y1_1 + h1
        x2_2 == x1_2 + w2
        y2_2 == y1_2 + h2
        xi1 == Max(x1_1, x1_2)
        yi1 == Max(y1_1, y1_2)
        xi2 == Min(x2_1, x2_2)
        yi2 == Min(y2_1, y2_2)
        inter_area == Max(0, xi2 - xi1) * Max(0, yi2 - yi1)
        union_area == w1 * h1 + w2 * h2 - inter_area
    IN  IF union_area = 0 THEN <<0, 1>> ELSE <<inter_area, union_area>>

\* iou > self.bbox_iou_threshold, on the exact fraction
IouAboveThreshold(iou) ==
    IF iou[2] > 0
    THEN iou[1] * bbox_iou_threshold_den > bbox_iou_threshold_num * iou[2]
    ELSE iou[1] * bbox_iou_threshold_den < bbox_iou_threshold_num * iou[2]

\* center_x = x + w/2 against img_width/3 and 2*img_width/3, scaled by 6
_get_position_text(bbox, width) ==
    LET center6 == 6 * bbox[1] + 3 * bbox[3]
    IN  IF center6 < 2 * width THEN "on the LEFT"
        ELSE IF center6 > 4 * width THEN "on the RIGHT"
        ELSE "in the CENTER"

(***************************************************************************)
(* A detection record, as built by SceneLocator.FindObjects:               *)
(*   label, distance_m, midas_depth, bbox, color ("None" when the key is   *)
(*   absent), color_breakdown (TRUE iff a non-empty breakdown is attached) *)
(* and, for the colour classifier, dominant: the value                     *)
(*   classify_light_color(frame_rgb, bbox)["dominant"] for this bbox.      *)
(***************************************************************************)
ClassifierColors == {"red", "green", "white", "unknown"}

\* classify_light_color: argmax over red/green/white, or "unknown"
classify_light_color(d) == d.dominant

IsTrafficLight(d) ==
    \E keyword \in traffic_light_keywords : Contains(keyword, Lower(d.label))

\* the private copy appended to traffic_lights, with its colour attached
WithColor(d, rgb) ==
    LET color_info == d.color_breakdown
        classify == (~color_info) /\ rgb
        dominant_color == IF classify THEN classify_light_color(d) ELSE d.color
    IN  IF color_info \/ classify
        THEN [d EXCEPT !.color = dominant_color]
        ELSE d

RECURSIVE TrafficLights(_, _)
TrafficLights(dets, rgb) ==
    IF dets = <<>> THEN <<>>
    ELSE IF IsTrafficLight(Head(dets))
         THEN <<WithColor(Head(dets), rgb)>> \o TrafficLights(Tail(dets), rgb)
         ELSE TrafficLights(Tail(dets), rgb)

\* variant: without `d = dict(d)` the colour is assigned to the caller's record
CallerRecordInPlace(d, rgb) == IF IsTrafficLight(d) THEN WithColor(d, rgb) ELSE d

\* the record the caller holds, after the loop body has run for it: d is
\* rebound to a copy (line 127) before d['color'] and d['color_breakdown']
\* are assigned, so the assignments land on the copy
CallerRecord(d, rgb) == d

\* the caller's detections_summary when analyze returns: the three checks
\* read it and build lists of their own (lines 116, 223, 306)
CallerList(dets, rgb) == [i \in 1..Len(dets) |-> CallerRecord(dets[i], rgb)]

\* min(traffic_lights, key=distance_m): the first of the nearest ones
RECURSIVE NearestFrom(_, _)
NearestFrom(best, rest) ==
    IF rest = <<>> THEN best
    ELSE IF Head(rest).distance_m < best.distance_m
         THEN NearestFrom(Head(rest), Tail(rest))
         ELSE NearestFrom(best, Tail(rest))

\* variant: the first traffic light of the list is taken, whatever its distance
NearestFirst(lights) == Head(lights)

Nearest(lights) == NearestFrom(Head(lights), Tail(lights))

\* variant: a yellow colour hint gets a state of its own
DeriveStateYellow(light) ==
    LET label == Lower(light.label)
        color_hint == light.color
    IN  IF Contains("r_signal", label) \/ Contains("r_light", label)
           \/ Contains("red", label) \/ color_hint = "red"
        THEN [state |-> "red", text |-> "RED LIGHT"]
        ELSE IF Contains("g_signal", label) \/ Contains("g_light", label)
                \/ Contains("green", label) \/ color_hint = "green"
        THEN [state |-> "green", text |-> "GREEN LIGHT"]
        ELSE IF Contains("stop sign", label)
        THEN [state |-> "stop", text |-> "STOP SIGN"]
        ELSE IF color_hint = "yellow"
        THEN [state |-> "unknown_yellow", text |-> "YELLOW LIGHT"]
        ELSE [state |-> "unknown", text |-> "Traffic Light"]

\* the if / elif chain deriving current_state and state_text
DeriveState(light) ==
    LET label == Lower(light.label)
        color_hint == light.color
    IN  IF Contains("r_signal", label) \/ Contains("r_light", label)
           \/ Contains("red", label) \/ color_hint = "red"
        THEN [state |-> "red", text |-> "RED LIGHT"]
        ELSE IF Contains("g_signal", label) \/ Contains("g_light", label)
                \/ Contains("green", label) \/ color_hint = "green"
        THEN [state |-> "green", text |-> "GREEN LIGHT"]
        ELSE IF Contains("stop sign", label)
        THEN [state |-> "stop", text |-> "STOP SIGN"]
        ELSE IF color_hint = "yellow"
        THEN [state |-> "unknown", text |-> "YELLOW LIGHT"]
        ELSE [state |-> "unknown", text |-> "Traffic Light"]

\* variant: a close light is reported on every frame (no 0.5 m hysteresis)
ShouldReportEveryCloseFrame(current_state, distance, last_state, last_distance) ==
    current_state # last_state \/ distance < traffic_light_distance_threshold

\* variant: the proximity test is an `if`, not an `elif`, and needs a stored distance
ShouldReportNeedsStored(current_state, distance, last_state, last_distance) ==
    /\ current_state # last_state \/ distance < traffic_light_distance_threshold
    /\ last_distance # None
    /\ current_state # last_state
         \/ Abs(distance - last_distance[1]) > distance_change_min

\* should_report of _check_traffic_lights
ShouldReport(current_state, distance, last_state, last_distance) ==
    IF current_state # last_state THEN TRUE
    ELSE IF distance < traffic_light_distance_threshold
         THEN last_distance = None \/ Abs(distance - last_distance[1]) > distance_change_min
         ELSE FALSE

TrafficLightAlert(light, derived) ==
    [priority |-> 1, type |-> "traffic_light", state |-> derived.state,
     message |-> <<derived.text,
                   IF light.distance_m < traffic_light_distance_threshold
                   THEN "AHEAD! Distance" ELSE ", Distance",
                   light.distance_m>>,
     distance_m |-> light.distance_m, midas_depth_mm |-> light.midas_depth]

\* variant: the memory is written only when an alert is emitted
CheckTrafficLightsPersistOnReport(dets, rgb, last_state, last_distance) ==
    LET traffic_lights == TrafficLights(dets, rgb)
    IN  IF traffic_lights = <<>>
        THEN [alert |-> <<>>, state |-> NoState, distance |-> None]
        ELSE LET nearest_light == Nearest(traffic_lights)
                 derived == DeriveState(nearest_light)
                 distance == nearest_light.distance_m
                 report == ShouldReport(derived.state, distance, last_state, last_distance)
             IN  [alert |-> IF report THEN <<TrafficLightAlert(nearest_light, derived)>>
                            ELSE <<>>,
                  state |-> derived.state,
                  distance |-> IF report THEN Some(distance) ELSE last_distance]

\* _check_traffic_lights: the alert (none: <<>>) and the memory it leaves
_check_traffic_lights(dets, rgb, last_state, last_distance) ==
    LET traffic_lights == TrafficLights(dets, rgb)
    IN  IF traffic_lights = <<>>
        THEN [alert |-> <<>>, state |-> NoState, distance |-> None]
        ELSE LET nearest_light == Nearest(traffic_lights)
                 derived == DeriveState(nearest_light)
                 distance == nearest_light.distance_m
             IN  [alert |-> IF ShouldReport(derived.state, distance, last_state, last_distance)
                            THEN <<TrafficLightAlert(nearest_light, derived)>>
                            ELSE <<>>,
                  state |-> derived.state,
                  distance |-> Some(distance)]

(***************************************************************************)
(* Tracked tables: dicts id -> (bbox, distance, frame), as sequences of    *)
(* records [id, bbox, distance, frame] in insertion order.                 *)
(***************************************************************************)
\* table[key] = value: an existing key keeps its place, a new key goes last
DictPut(table, entry) ==
    IF \E i \in 1..Len(table) : table[i].id = entry.id
    THEN [i \in 1..Len(table) |->
             IF table[i].id = entry.id THEN entry ELSE table[i]]
    ELSE Append(table, entry)

DictKeys(table) == {table[i].id : i \in 1..Len(table)}

RECURSIVE SelectSeqBy(_, _)
\* the list comprehension [d for d in seq if keep[d]], keep given as a set
SelectSeqBy(seq, keep) ==
    IF seq = <<>> THEN <<>>
    ELSE IF Head(seq) \in keep
         THEN <<Head(seq)>> \o SelectSeqBy(Tail(seq), keep)
         ELSE SelectSeqBy(Tail(seq), keep)

Range(seq) == {seq[i] : i \in 1..Len(seq)}

\* the for ... break loop over the tracked table: index of the first entry
\* whose IOU with bbox exceeds the threshold, 0 when there is none
FirstMatch(bbox, tracked) ==
    LET hits == {i \in 1..Len(tracked) :
                    IouAboveThreshold(_calculate_iou(bbox, tracked[i].bbox))}
    IN  IF hits = {} THEN 0 ELSE CHOOSE i \in hits : \A j \in hits : i <= j

\* abs(distance - tracked_distance) > 0.5
DistanceChanged(distance, tracked_distance) ==
    Abs(distance - tracked_distance) > distance_change_min

\* variant: the vehicle threshold taken inclusively (<= 3.0 m)
CloseCarsInclusive(dets) ==
    SelectSeqBy(dets, {d \in Range(dets) :
        Lower(d.label) \in vehicle_labels /\ d.distance_m <= vehicle_distance_threshold})

CloseCars(dets) ==
    SelectSeqBy(dets, {d \in Range(dets) :
        Lower(d.label) \in vehicle_labels /\ d.distance_m < vehicle_distance_threshold})

ClosePersons(dets) ==
    SelectSeqBy(dets, {d \in Range(dets) :
        Lower(d.label) = "person" /\ d.distance_m < person_distance_threshold})

VehicleAlert(car, width) ==
    [priority |-> 2, type |-> "vehicle",
     message |-> <<"WARNING!", Upper(car.label), _get_position_text(car.bbox, width),
                   "at", car.distance_m>>,
     distance_m |-> car.distance_m, midas_depth_mm |-> car.midas_depth,
     label |-> car.label, position |-> _get_position_text(car.bbox, width)]

PersonAlert(person, width) ==
    [priority |-> 3, type |-> "person",
     message |-> <<"PERSON", _get_position_text(person.bbox, width),
                   "at", person.distance_m>>,
     distance_m |-> person.distance_m, midas_depth_mm |-> person.midas_depth,
     position |-> _get_position_text(person.bbox, width)]

\* car_id = f"{label}_{bbox[0]}_{bbox[1]}_{self.frame_counter}"
CarId(car, fc) == <<car.label, car.bbox[1], car.bbox[2], fc>>

\* person_id = f"person_{bbox[0]}_{bbox[1]}_{self.frame_counter}"
PersonId(person, fc) == <<"person", person.bbox[1], person.bbox[2], fc>>

Entry(id, d, fc) == [id |-> id, bbox |-> d.bbox, distance |-> d.distance_m, frame |-> fc]

\* variant: a matched car that raises no alert keeps the distance it was
\* tracked with (the table remembers the alerted distance, not the latest one)
CarStepKeepsAlertedDistance(acc, car, tracked, fc, width) ==
    LET m == FirstMatch(car.bbox, tracked)
    IN  IF m = 0
        THEN [alerts |-> Append(acc.alerts, VehicleAlert(car, width)),
              current |-> DictPut(acc.current, Entry(CarId(car, fc), car, fc))]
        ELSE IF DistanceChanged(car.distance_m, tracked[m].distance)
        THEN [alerts |-> Append(acc.alerts, VehicleAlert(car, width)),
              current |-> DictPut(acc.current, Entry(tracked[m].id, car, fc))]
        ELSE [alerts |-> acc.alerts,
              current |-> DictPut(acc.current,
                             [Entry(tracked[m].id, car, fc)
                                 EXCEPT !.distance = tracked[m].distance])]

\* variant: a matched car keeps the frame number it was tracked with
CarStepKeepsFrame(acc, car, tracked, fc, width) ==
    LET m == FirstMatch(car.bbox, tracked)
    IN  IF m = 0
        THEN [alerts |-> Append(acc.alerts, VehicleAlert(car, width)),
              current |-> DictPut(acc.current, Entry(CarId(car, fc), car, fc))]
        ELSE [alerts |-> IF DistanceChanged(car.distance_m, tracked[m].distance)
                         THEN Append(acc.alerts, VehicleAlert(car, width))
                         ELSE acc.alerts,
              current |-> DictPut(acc.current,
                                  Entry(tracked[m].id, car, tracked[m].frame))]

\* one pass of the loop body of _check_cars for one close car
CarStep(acc, car, tracked, fc, width) ==
    LET m == FirstMatch(car.bbox, tracked)
    IN  IF m = 0
        THEN [alerts |-> Append(acc.alerts, VehicleAlert(car, width)),
              current |-> DictPut(acc.current, Entry(CarId(car, fc), car, fc))]
        ELSE [alerts |-> IF DistanceChanged(car.distance_m, tracked[m].distance)
                         THEN Append(acc.alerts, VehicleAlert(car, width))
                         ELSE acc.alerts,
              current |-> DictPut(acc.current, Entry(tracked[m].id, car, fc))]

RECURSIVE CarsLoop(_, _, _, _, _)
CarsLoop(acc, close_cars, tracked, fc, width) ==
    IF close_cars = <<>> THEN acc
    ELSE CarsLoop(CarStep(acc, Head(close_cars), tracked, fc, width),
                  Tail(close_cars), tracked, fc, width)

\* _check_cars: the alerts and the table that replaces self.last_reported_cars
_check_cars(dets, width, tracked, fc) ==
    CarsLoop([alerts |-> <<>>, current |-> <<>>], CloseCars(dets), tracked, fc, width)

\* variant: a matched person that raises no alert keeps the distance it was
\* tracked with
PersonStepKeepsAlertedDistance(acc, person, tracked, fc, width) ==
    LET m == FirstMatch(person.bbox, tracked)
    IN  IF m = 0
        THEN [alerts |-> Append(acc.alerts, PersonAlert(person, width)),
              current |-> DictPut(acc.current, Entry(PersonId(person, fc), person, fc))]
        ELSE IF DistanceChanged(person.distance_m, tracked[m].distance)
        THEN [alerts |-> Append(acc.alerts, PersonAlert(person, width)),
              current |-> DictPut(acc.current, Entry(tracked[m].id, person, fc))]
        ELSE [alerts |-> acc.alerts,
              current |-> DictPut(acc.current,
                             [Entry(tracked[m].id, person, fc)
                                 EXCEPT !.distance = tracked[m].distance])]

\* one pass of the loop body of _check_persons for one close person
PersonStep(acc, person, tracked, fc, width) ==
    LET m == FirstMatch(person.bbox, tracked)
    IN  IF m = 0
        THEN [alerts |-> Append(acc.alerts, PersonAlert(person, width)),
              current |-> DictPut(acc.current, Entry(PersonId(person, fc), person, fc))]
        ELSE [alerts |-> IF DistanceChanged(person.distance_m, tracked[m].distance)
                         THEN Append(acc.alerts, PersonAlert(person, width))
                         ELSE acc.alerts,
              current |-> DictPut(acc.current, Entry(tracked[m].id, person, fc))]

RECURSIVE PersonsLoop(_, _, _, _, _)
PersonsLoop(acc, close_persons, tracked, fc, width) ==
    IF close_persons = <<>> THEN acc
    ELSE PersonsLoop(PersonStep(acc, Head(close_persons), tracked, fc, width),
                     Tail(close_persons), tracked, fc, width)

\* _check_persons: the alerts and the table that replaces self.last_reported_persons
_check_persons(dets, width, tracked, fc) ==
    PersonsLoop([alerts |-> <<>>, current |-> <<>>], ClosePersons(dets), tracked, fc, width)

\* variant: the comparison is the wrong way round
ExpiredInverted(table, fc) ==
    {table[i].id : i \in {j \in 1..Len(table) : fc - table[j].frame < object_timeout_frames}}

\* the entries _cleanup_expired_objects deletes from one table
Expired(table, fc) ==
    {table[i].id : i \in {j \in 1..Len(table) : fc - table[j].frame > object_timeout_frames}}

\* _cleanup_expired_objects, for one table
_cleanup_expired_objects(table, fc) ==
    SelectSeqBy(table, {e \in Range(table) : e.id \notin Expired(table, fc)})

(***************************************************************************)
(* History variables (not program state): what was last *alerted*, which   *)
(* the program does not store, kept so that claims about "the last report" *)
(* can be stated.                                                          *)
(***************************************************************************)
Lookup(table, id) == (CHOOSE i \in 1..Len(table) : table[i].id = id)

\* per id of the new table: the distance of this frame's alert for it, or
\* else the distance recorded for the entry it was matched to
RECURSIVE AlertedAt(_, _, _, _, _, _)
AlertedAt(acc, close, tracked, old, fc, kind) ==
    IF close = <<>> THEN acc
    ELSE LET d == Head(close)
             m == FirstMatch(d.bbox, tracked)
             id == IF m # 0 THEN tracked[m].id
                   ELSE IF kind = "car" THEN CarId(d, fc) ELSE PersonId(d, fc)
             at == IF m = 0 \/ DistanceChanged(d.distance_m, tracked[m].distance)
                   THEN d.distance_m
                   ELSE old[Lookup(old, tracked[m].id)].distance
         IN  AlertedAt(DictPut(acc, [id |-> id, distance |-> at]),
                       Tail(close), tracked, old, fc, kind)

(***************************************************************************)
(* The operations                                                          *)
(***************************************************************************)
Constructed ==
    /\ last_traffic_light_state = NoState
    /\ last_traffic_light_distance = None
    /\ last_reported_cars = <<>>
    /\ last_reported_persons = <<>>
    /\ frame_counter = 0
    /\ detections = <<>>
    /\ frame_rgb = FALSE
    /\ alerts = <<>>
    /\ light_alerted = <<>>
    /\ cars_alerted_at = <<>>
    /\ persons_alerted_at = <<>>
    /\ car_seen_at = 0

\* a PriorityAnalyzer as __init__ leaves it, as a value (alerts: nothing returned yet)
Fresh ==
    [last_traffic_light_state |-> NoState, last_traffic_light_distance |-> None,
     last_reported_cars |-> <<>>, last_reported_persons |-> <<>>,
     frame_counter |-> 0, alerts |-> <<>>]

Threads == {1, 2}

NoCall == [pc |-> "idle"]

\* no analyze call running on the first analyzer.  serialized: the callers of
\* the running calls take a lock around analyze; lock: the thread holding it,
\* 0 if free; before: the analyzer as it was when the calls were issued.
NoCalls ==
    [running |-> [t \in Threads |-> NoCall], serialized |-> FALSE, lock |-> 0,
     before |-> Fresh]

\* no second stream fed, no frame read, no call running, nothing sampled
Idle ==
    /\ second = Fresh
    /\ fed = [first |-> <<>>, second |-> <<>>, reset |-> FALSE]
    /\ scene = [anchor |-> TRUE, boxes |-> <<>>]
    /\ calls = NoCalls
    /\ sampled = [pc |-> "idle"]
    /\ compensated = [pc |-> "idle"]
    /\ overlapped = [pc |-> "idle"]
    /\ classified = [pc |-> "idle"]

Init == Constructed /\ Idle

\* variant: the pedestrian alerts extended to the list before the vehicle alerts
analyzePersonsFirst(f) ==
    LET fc == frame_counter + 1
        light == _check_traffic_lights(f.dets, f.rgb, last_traffic_light_state,
                                       last_traffic_light_distance)
        cars == _check_cars(f.dets, img_width, last_reported_cars, fc)
        persons == _check_persons(f.dets, img_width, last_reported_persons, fc)
    IN  /\ frame_counter' = fc
        /\ last_traffic_light_state' = light.state
        /\ last_traffic_light_distance' = light.distance
        /\ last_reported_cars' = _cleanup_expired_objects(cars.current, fc)
        /\ last_reported_persons' = _cleanup_expired_objects(persons.current, fc)
        /\ alerts' = light.alert \o persons.alerts \o cars.alerts
        /\ detections' = f.dets
        /\ frame_rgb' = f.rgb
        /\ light_alerted' = IF light.alert # <<>> THEN light.alert ELSE light_alerted
        /\ cars_alerted_at' = AlertedAt(<<>>, CloseCars(f.dets), last_reported_cars,
                                        cars_alerted_at, fc, "car")
        /\ persons_alerted_at' = AlertedAt(<<>>, ClosePersons(f.dets), last_reported_persons,
                                           persons_alerted_at, fc, "person")
        /\ car_seen_at' = IF CloseCars(f.dets) # <<>> THEN fc ELSE car_seen_at

\* analyze(detections_summary, img_width, frame_rgb) on the frame f
analyze(f) ==
    LET fc == frame_counter + 1
        light == _check_traffic_lights(f.dets, f.rgb, last_traffic_light_state,
                                       last_traffic_light_distance)
        cars == _check_cars(f.dets, img_width, last_reported_cars, fc)
        persons == _check_persons(f.dets, img_width, last_reported_persons, fc)
    IN  /\ frame_counter' = fc
        /\ last_traffic_light_state' = light.state
        /\ last_traffic_light_distance' = light.distance
        /\ last_reported_cars' = _cleanup_expired_objects(cars.current, fc)
        /\ last_reported_persons' = _cleanup_expired_objects(persons.current, fc)
        /\ alerts' = light.alert \o cars.alerts \o persons.alerts
        /\ detections' = CallerList(f.dets, f.rgb)
        /\ frame_rgb' = f.rgb
        /\ light_alerted' = IF light.alert # <<>> THEN light.alert ELSE light_alerted
        /\ cars_alerted_at' = AlertedAt(<<>>, CloseCars(f.dets), last_reported_cars,
                                        cars_alerted_at, fc, "car")
        /\ persons_alerted_at' = AlertedAt(<<>>, ClosePersons(f.dets), last_reported_persons,
                                           persons_alerted_at, fc, "person")
        /\ car_seen_at' = IF CloseCars(f.dets) # <<>> THEN fc ELSE car_seen_at

\* d['distance_m'] raises KeyError for a detection that carries no distance
HasDistance(d) == "distance_m" \in DOMAIN d

\* Where analyze raises on the frame: in _check_traffic_lights (the min over
\* distance_m, line 145) when a traffic light carries no distance, else in
\* _check_cars (line 225) when a vehicle carries none, else in _check_persons
\* (line 308) when a person carries none; "none" when it returns.
FailingStage(f) ==
    IF \E d \in Range(f.dets) : IsTrafficLight(d) /\ ~HasDistance(d) THEN "lights"
    ELSE IF \E d \in Range(f.dets) : Lower(d.label) \in vehicle_labels /\ ~HasDistance(d)
    THEN "cars"
    ELSE IF \E d \in Range(f.dets) : Lower(d.label) = "person" /\ ~HasDistance(d)
    THEN "persons"
    ELSE "none"

\* analyze(...) on a frame where it raises: the statements before the failing
\* one have run, nothing is returned to the caller
analyze_raises(f) ==
    LET fc == frame_counter + 1
        stage == FailingStage(f)
        light == _check_traffic_lights(f.dets, f.rgb, last_traffic_light_state,
                                       last_traffic_light_distance)
        cars == _check_cars(f.dets, img_width, last_reported_cars, fc)
    IN  /\ stage # "none"
        /\ frame_counter' = fc
        /\ last_traffic_light_state' =
              IF stage = "lights" THEN last_traffic_light_state ELSE light.state
        /\ last_traffic_light_distance' =
              IF stage = "lights" THEN last_traffic_light_distance ELSE light.distance
        /\ last_reported_cars' =
              IF stage = "persons" THEN cars.current ELSE last_reported_cars
        /\ last_reported_persons' = last_reported_persons
        /\ alerts' = <<>>
        /\ detections' = CallerList(f.dets, f.rgb)
        /\ frame_rgb' = f.rgb
        /\ cars_alerted_at' =
              IF stage = "persons"
              THEN AlertedAt(<<>>, CloseCars(f.dets), last_reported_cars,
                             cars_alerted_at, fc, "car")
              ELSE cars_alerted_at
        /\ car_seen_at' =
              IF stage = "persons" /\ CloseCars(f.dets) # <<>> THEN fc ELSE car_seen_at
        /\ UNCHANGED <<light_alerted, persons_alerted_at>>

\* variant: reset leaves the tracked vehicle table as it is
resetKeepsCars ==
    /\ last_traffic_light_state' = NoState
    /\ last_traffic_light_distance' = None
    /\ last_reported_cars' = last_reported_cars
    /\ last_reported_persons' = <<>>
    /\ frame_counter' = 0
    /\ detections' = <<>>
    /\ frame_rgb' = FALSE
    /\ alerts' = <<>>
    /\ light_alerted' = <<>>
    /\ cars_alerted_at' = <<>>
    /\ persons_alerted_at' = <<>>
    /\ car_seen_at' = 0

\* analyze as a function of the analyzer it is called on: the attributes it
\* leaves and the list it returns
Analyzed(self, f) ==
    LET fc == self.frame_counter + 1
        light == _check_traffic_lights(f.dets, f.rgb, self.last_traffic_light_state,
                                       self.last_traffic_light_distance)
        cars == _check_cars(f.dets, img_width, self.last_reported_cars, fc)
        persons == _check_persons(f.dets, img_width, self.last_reported_persons, fc)
    IN  [last_traffic_light_state |-> light.state,
         last_traffic_light_distance |-> light.distance,
         last_reported_cars |-> _cleanup_expired_objects(cars.current, fc),
         last_reported_persons |-> _cleanup_expired_objects(persons.current, fc),
         frame_counter |-> fc,
         alerts |-> light.alert \o cars.alerts \o persons.alerts]

\* variant: the tracked vehicle table is one table shared by all instances
\* (a class attribute), so the second analyzer matches against the first's
analyze_second_shared(f) ==
    second' = Analyzed([second EXCEPT !.last_reported_cars = last_reported_cars], f)

\* analyze(...) called on the second analyzer
analyze_second(f) == second' = Analyzed(second, f)

\* reset(); the caller's frame and alert list of the stream are gone with it
reset ==
    /\ last_traffic_light_state' = NoState
    /\ last_traffic_light_distance' = None
    /\ last_reported_cars' = <<>>
    /\ last_reported_persons' = <<>>
    /\ frame_counter' = 0
    /\ detections' = <<>>
    /\ frame_rgb' = FALSE
    /\ alerts' = <<>>
    /\ light_alerted' = <<>>
    /\ cars_alerted_at' = <<>>
    /\ persons_alerted_at' = <<>>
    /\ car_seen_at' = 0

(***************************************************************************)
(* Input frames.  A frame is [dets, rgb]: the detection list and whether a *)
(* frame image is passed.  midas_depth follows from the distance through   *)
(* the ratio proportion of one reference anchor (depth = 8400 / distance). *)
(***************************************************************************)
MaxFrame == 3

Det(label, distance, bbox, color, breakdown, dominant) ==
    [label |-> label, distance_m |-> distance, midas_depth |-> 8400 \div distance,
     bbox |-> bbox, color |-> color, color_breakdown |-> breakdown,
     dominant |-> dominant]

Plain(label, distance, bbox) == Det(label, distance, bbox, "None", FALSE, "unknown")

\* a detection that carries its raw depth but no distance_m
RawOnly(label, depth, bbox) ==
    [label |-> label, midas_depth |-> depth, bbox |-> bbox,
     color |-> "None", color_breakdown |-> FALSE, dominant |-> "unknown"]

\* 2.0, 2.5, 2.8 m (within 0.5 m of their neighbour, 0.8 m end to end) and 3.0 m
Distances == {20, 25, 28, 30}

LightBox == <<300, 50, 20, 40>>
BoxLeft  == <<150, 100, 100, 100>>   \* centre 200: LEFT
BoxShift == <<170, 100, 100, 100>>   \* IOU 2/3 with BoxLeft, centre 220: CENTER
BoxSmall == <<150, 100, 40, 40>>     \* origin of BoxLeft, IOU 4/25 with it
BoxRight == <<500, 100, 100, 100>>   \* disjoint from the others: RIGHT

Frames(singles, pairs, rgbs) ==
    {[dets |-> ds, rgb |-> r] :
        ds \in {<<>>} \cup {<<d>> : d \in singles} \cup {<<d, e>> : d, e \in pairs},
        r \in rgbs}

\* traffic lights and stop signs with a colour attached upstream ...
LightsAttached ==
    {Det(l, d, LightBox, c, TRUE, "unknown") :
        l \in {"traffic light", "stop sign"}, d \in Distances,
        c \in {"red", "green", "yellow", "white", "unknown"}}

\* ... with none (or an empty breakdown), classified from the frame image ...
LightsClassified ==
    {Det(l, d, LightBox, c, FALSE, k) :
        l \in {"traffic light", "stop sign"}, d \in Distances,
        c \in {"None"}, k \in ClassifierColors}
    \cup {Det("traffic light", d, LightBox, "unknown", FALSE, k) :
        d \in Distances, k \in {"red", "unknown"}}

\* ... and without any colour information
LightsPlain ==
    {Plain(l, d, LightBox) :
        l \in {"traffic light", "stop sign", "R_Signal", "G_Signal"}, d \in Distances}

LightPairs == {x \in LightsPlain : x.distance_m # 25}

LightFrames ==
    Frames(LightsAttached \cup LightsClassified \cup LightsPlain, {}, {TRUE})
    \cup Frames(LightsAttached \cup LightsPlain, LightPairs, {FALSE})

TrackSingles ==
    {Plain(l, d, b) : l \in {"car", "person"}, d \in Distances,
                      b \in {BoxLeft, BoxShift, BoxSmall, BoxRight}}
    \cup {Plain(l, 20, BoxLeft) : l \in {"Truck", "Person", "dog"}}

TrackPairs ==
    {Plain(l, 20, b) : l \in {"car", "person"}, b \in {BoxLeft, BoxSmall}}
    \cup {Plain(l, 28, BoxShift) : l \in {"car", "person"}}

TrackFrames == Frames(TrackSingles, TrackPairs, {FALSE})

MixedSingles ==
    {Plain(l, d, BoxLeft) : l \in {"car", "person"}, d \in {20, 28}}
    \cup {Plain(l, d, LightBox) : l \in {"traffic light", "R_Signal"}, d \in {20, 28}}

MixedFrames == Frames(MixedSingles, MixedSingles, {FALSE})

\* one vehicle that comes and goes over a run longer than the timeout
LongFrames == Frames({Plain("car", 20, BoxLeft)}, {}, {FALSE})

LongRun == object_timeout_frames + 3

(***************************************************************************)
(* modules/DepthSampler.py.  A depth field is [img_w, img_h] with the      *)
(* value FieldValue at each cell; a sample point is <<px, py>>.  The       *)
(* outcome of a call is [raised, lookups, value]: the exception raised     *)
(* ("None" if none), the points looked up in order, and the value returned *)
(* as the fraction <<numerator, denominator>> (<<>> when nothing is        *)
(* returned).                                                              *)
(***************************************************************************)
\* the contents of the depth map: a fixed pattern over the cells
FieldValue(px, py) == (7 * px + 13 * py) % 11

\* int(n / d) for d > 0: Python's int() truncates toward zero
Trunc(n, d) == IF n >= 0 THEN n \div d ELSE 0 - ((0 - n) \div d)

\* monocular_depth_val[py, px]: an index in -size..size-1 is valid (a negative
\* one counts from the end), any other raises IndexError
InRange(i, size) == 0 - size <= i /\ i < size

Lookup2(field, point) ==
    IF InRange(point[1], field.img_w) /\ InRange(point[2], field.img_h)
    THEN <<FieldValue((point[1] + field.img_w) % field.img_w,
                      (point[2] + field.img_h) % field.img_h)>>
    ELSE <<>>

\* variant: the width is not clamped to the columns right of x
ClampBoxKeepsWidth(bbox, field) ==
    LET x == Max(0, Min(bbox[1], field.img_w - 1))
        y == Max(0, Min(bbox[2], field.img_h - 1))
        w == Max(1, bbox[3])
        h == Max(1, Min(bbox[4], field.img_h - y))
    IN  <<x, y, w, h>>

\* lines 22-29: x, y, w, h brought within the image
ClampBox(bbox, field) ==
    LET x == Max(0, Min(bbox[1], field.img_w - 1))
        y == Max(0, Min(bbox[2], field.img_h - 1))
        w == Max(1, Min(bbox[3], field.img_w - x))
        h == Max(1, Min(bbox[4], field.img_h - y))
    IN  <<x, y, w, h>>

ClampPoint(point, field) ==
    <<Max(0, Min(point[1], field.img_w - 1)), Max(0, Min(point[2], field.img_h - 1))>>

CenterPoints(b) == <<<<b[1] + b[3] \div 2, b[2] + b[4] \div 2>>>>

\* for i in [0.25, 0.5, 0.75]: for j in [0.25, 0.5, 0.75]: (int(x + w*i), int(y + h*j))
GridPoints(b, field) ==
    [n \in 1..9 |->
        LET i == (n - 1) \div 3 + 1
            j == ((n - 1) % 3) + 1
        IN  ClampPoint(<<Trunc(4 * b[1] + b[3] * i, 4), Trunc(4 * b[2] + b[4] * j, 4)>>,
                       field)]

EdgesPoints(b, field) ==
    LET raw == <<<<b[1] + b[3] \div 2, b[2]>>,
                 <<b[1] + b[3] \div 2, b[2] + b[4]>>,
                 <<b[1], b[2] + b[4] \div 2>>,
                 <<b[1] + b[3], b[2] + b[4] \div 2>>,
                 <<b[1] + b[3] \div 2, b[2] + b[4] \div 2>>>>
    IN  [n \in 1..5 |-> ClampPoint(raw[n], field)]

RECURSIVE Insert(_, _)
Insert(sorted, v) ==
    IF sorted = <<>> THEN <<v>>
    ELSE IF v <= Head(sorted) THEN <<v>> \o sorted
         ELSE <<Head(sorted)>> \o Insert(Tail(sorted), v)

RECURSIVE Sorted(_)
Sorted(values) ==
    IF values = <<>> THEN <<>> ELSE Insert(Sorted(Tail(values)), Head(values))

RECURSIVE Sum(_)
Sum(values) == IF values = <<>> THEN 0 ELSE Head(values) + Sum(Tail(values))

\* depths_sorted[2:-2] for five values or more, [1:-1] for three or four
Trimmed(depths_sorted) ==
    LET n == Len(depths_sorted)
    IN  IF n >= 5 THEN SubSeq(depths_sorted, 3, n - 2)
        ELSE IF n >= 3 THEN SubSeq(depths_sorted, 2, n - 1)
        ELSE depths_sorted

\* the depths at the points, or IndexError at the first point out of range
Sample(field, points, statistic) ==
    LET found == [n \in 1..Len(points) |-> Lookup2(field, points[n])]
    IN  IF \E n \in 1..Len(points) : found[n] = <<>>
        THEN [raised |-> "IndexError", lookups |-> points, value |-> <<>>]
        ELSE LET depths == [n \in 1..Len(points) |-> found[n][1]]
             IN  [raised |-> "None", lookups |-> points,
                  value |-> IF statistic = "single" THEN <<depths[1], 1>>
                            ELSE IF statistic = "median"
                            THEN <<Sorted(depths)[(Len(depths) + 1) \div 2], 1>>
                            ELSE <<Sum(Trimmed(Sorted(depths))),
                                   Len(Trimmed(Sorted(depths)))>>]

RECURSIVE get_stable_depth_defaulting(_, _, _)
\* variant: a strategy name that is not recognised falls back to grid sampling
get_stable_depth_defaulting(field, bbox, sampling_strategy) ==
    LET b == ClampBox(bbox, field)
    IN  IF sampling_strategy = "center"
        THEN Sample(field, CenterPoints(b), "single")
        ELSE IF sampling_strategy = "edges"
        THEN Sample(field, EdgesPoints(b, field), "median")
        ELSE IF sampling_strategy = "adaptive"
        THEN IF b[3] * b[4] < 1000
             THEN get_stable_depth_defaulting(field, bbox, "center")
             ELSE IF b[3] * b[4] < 10000
             THEN get_stable_depth_defaulting(field, bbox, "edges")
             ELSE get_stable_depth_defaulting(field, bbox, "grid")
        ELSE Sample(field, GridPoints(b, field), "mean")

RECURSIVE get_stable_depth(_, _, _)
get_stable_depth(field, bbox, sampling_strategy) ==
    LET b == ClampBox(bbox, field)
    IN  IF sampling_strategy = "center"
        THEN Sample(field, CenterPoints(b), "single")
        ELSE IF sampling_strategy = "grid"
        THEN Sample(field, GridPoints(b, field), "mean")
        ELSE IF sampling_strategy = "edges"
        THEN Sample(field, EdgesPoints(b, field), "median")
        ELSE IF sampling_strategy = "adaptive"
        THEN IF b[3] * b[4] < 1000
             THEN get_stable_depth(field, bbox, "center")
             ELSE IF b[3] * b[4] < 10000
             THEN get_stable_depth(field, bbox, "edges")
             ELSE get_stable_depth(field, bbox, "grid")
        ELSE [raised |-> "ValueError", lookups |-> <<>>, value |-> <<>>]

\* depth fields of 1 x 1, 4 x 3 and 120 x 110 cells (the last one holds boxes
\* of area 10000 and more, which adaptive samples on the grid)
Fields == {[img_w |-> 1, img_h |-> 1], [img_w |-> 4, img_h |-> 3],
           [img_w |-> 120, img_h |-> 110]}

Origins == {-5, 0, 3, 60, 119, 200}

Sides == {-2, 0, 1, 4, 30, 110, 300}

Strategies == {"center", "grid", "edges", "adaptive", "median", ""}

SamplerCalls ==
    {[pc |-> "called", field |-> field, bbox |-> <<x, y, w, h>>,
      strategy |-> strategy, result |-> <<>>] :
        field \in Fields, x \in Origins, y \in Origins, w \in Sides, h \in Sides,
        strategy \in Strategies}

\* the call of get_stable_depth that is pending returns or raises
GetStableDepth ==
    /\ sampled.pc = "called"
    /\ sampled' = [sampled EXCEPT
                      !.pc = "done",
                      !.result = get_stable_depth(sampled.field, sampled.bbox,
                                                  sampled.strategy)]
    /\ UNCHANGED <<last_traffic_light_state, last_traffic_light_distance,
                   last_reported_cars, last_reported_persons, frame_counter,
                   detections, frame_rgb, alerts, light_alerted, cars_alerted_at,
                   persons_alerted_at, car_seen_at,
                   second, fed, scene, calls, compensated, overlapped, classified>>

InitSampler ==
    /\ Constructed
    /\ second = Fresh
    /\ fed = [first |-> <<>>, second |-> <<>>, reset |-> FALSE]
    /\ scene = [anchor |-> TRUE, boxes |-> <<>>]
    /\ calls = NoCalls
    /\ sampled \in SamplerCalls
    /\ compensated = [pc |-> "idle"]
    /\ overlapped = [pc |-> "idle"]
    /\ classified = [pc |-> "idle"]

(***************************************************************************)
(* modules/DistanceCompensator.py.  Lengths are integers in millimetres,   *)
(* angles exact fractions of a degree <<numerator, denominator>>; tan is   *)
(* tabulated per whole degree in ten-thousandths, the square root and the  *)
(* weighted sum are rounded down to the millimetre.  The inputs keep off   *)
(* pitches of exactly 3 and 5 degrees, where the rounding of the float     *)
(* product decides the comparison.                                         *)
(***************************************************************************)
OBJECT_HEIGHTS ==
    [type \in {"traffic light", "street sign", "stop sign", "person", "car",
               "truck", "bus", "bicycle", "motorcycle"} |->
        CASE type = "traffic light" -> 5000
          [] type = "street sign"   -> 4000
          [] type = "stop sign"     -> 2500
          [] type = "person"        -> 1700
          [] type = "car"           -> 1500
          [] type = "truck"         -> 3000
          [] type = "bus"           -> 3500
          [] type = "bicycle"       -> 1100
          [] type = "motorcycle"    -> 1200]

\* camera_params.get('camera_height', 1500)
CameraHeight(camera_params) ==
    IF "camera_height" \in DOMAIN camera_params THEN camera_params.camera_height
    ELSE 1500

\* the vertical field of view in degrees: fov_vertical, else
\* 2 * arctan(image_height / (2 * focal_length)), which is 90 degrees for the
\* one focal length of the model (image_height / 2), else 65
FovDegrees(camera_params) ==
    IF "fov_vertical" \in DOMAIN camera_params THEN camera_params.fov_vertical
    ELSE IF "focal_length" \in DOMAIN camera_params THEN 90
    ELSE 65

\* pitch = (image_height / 2 - y_pixel) * (fov_v / image_height), in degrees
pixel_to_pitch_angle(camera_params, y_pixel) ==
    <<(camera_params.image_height - 2 * y_pixel) * FovDegrees(camera_params),
      2 * camera_params.image_height>>

get_object_height(camera_params, object_type) ==
    IF Lower(object_type) \in DOMAIN OBJECT_HEIGHTS
    THEN OBJECT_HEIGHTS[Lower(object_type)]
    ELSE CameraHeight(camera_params)

\* round(10000 * tan(d degrees)) for d = 1..45
TanTable ==
    <<
      175, 349, 524, 699, 875, 1051, 1228, 1405, 1584, 1763, 1944,
      2126, 2309, 2493, 2679, 2867, 3057, 3249, 3443, 3640, 3839,
      4040, 4245, 4452, 4663, 4877, 5095, 5317, 5543, 5774, 6009,
      6249, 6494, 6745, 7002, 7265, 7536, 7813, 8098, 8391, 8693,
      9004, 9325, 9657, 10000
    >>

RECURSIVE GCD(_, _)
GCD(a, b) == IF b = 0 THEN a ELSE GCD(b, a % b)

RECURSIVE SqrtBetween(_, _, _)
\* the largest r in lo..hi with r * r <= n
SqrtBetween(n, lo, hi) ==
    IF lo = hi THEN lo
    ELSE LET mid == (lo + hi + 1) \div 2
         IN  IF mid * mid <= n THEN SqrtBetween(n, mid, hi)
             ELSE SqrtBetween(n, lo, mid - 1)

\* lines 132-165: the hybrid of the geometric and the vector estimate
Hybrid(slant_distance, height_diff, pitch) ==
    LET magnitude == Abs(pitch[1])
        degrees == magnitude \div pitch[2]
        geometric ==
            IF magnitude > 5 * pitch[2]
            THEN Max(slant_distance \div 2,
                     Min(2 * slant_distance,
                         (Abs(height_diff) * 10000) \div TanTable[degrees]))
            ELSE slant_distance
        vector ==
            IF slant_distance * slant_distance > height_diff * height_diff
            THEN SqrtBetween(slant_distance * slant_distance - height_diff * height_diff,
                             0, slant_distance)
            ELSE 0
        whole == magnitude >= 30 * pitch[2]
        common == GCD(magnitude, 30 * pitch[2])
        weight_num == IF whole THEN 1 ELSE magnitude \div common
        weight_den == IF whole THEN 1 ELSE (30 * pitch[2]) \div common
    IN  (weight_num * geometric + (weight_den - weight_num) * vector) \div weight_den

\* variant: the height test alone decides, the pitch test is skipped
compensate_distance_height_only(camera_params, slant_distance, y_pixel, object_type) ==
    LET height_diff == get_object_height(camera_params, object_type)
                          - CameraHeight(camera_params)
        pitch == pixel_to_pitch_angle(camera_params, y_pixel)
    IN  IF Abs(height_diff) < 500 THEN slant_distance
        ELSE Hybrid(slant_distance, height_diff, pitch)

compensate_distance(camera_params, slant_distance, y_pixel, object_type) ==
    LET height_diff == get_object_height(camera_params, object_type)
                          - CameraHeight(camera_params)
        pitch == pixel_to_pitch_angle(camera_params, y_pixel)
    IN  IF Abs(pitch[1]) < 3 * pitch[2] THEN slant_distance
        ELSE IF Abs(height_diff) < 500 THEN slant_distance
        ELSE Hybrid(slant_distance, height_diff, pitch)

\* a 720-row camera with the field of view given, defaulted, or derived from
\* the focal length (there with the camera at 1.2 m)
Cameras ==
    {[image_height |-> 720, fov_vertical |-> 60],
     [image_height |-> 720],
     [image_height |-> 720, focal_length |-> 360, camera_height |-> 1200]}

\* rows at whole pitches beyond 5 degrees for each camera (72, 216, 504,
\* 648), the centre row (360) and rows within 5 degrees of it
Rows == {72, 216, 322, 325, 340, 360, 395, 504, 648}

Slants == {2000, 10000, 40000}

ObjectTypes == {"traffic light", "stop sign", "person", "Person", "car", "Truck", "dog"}

CompensatorCalls ==
    {[pc |-> "called", camera_params |-> camera, slant_distance |-> slant,
      y_pixel |-> row, object_type |-> type, result |-> 0] :
        camera \in Cameras, slant \in Slants, row \in Rows, type \in ObjectTypes}

\* the call of compensate_distance that is pending returns
CompensateDistance ==
    /\ compensated.pc = "called"
    /\ compensated' =
          [compensated EXCEPT
              !.pc = "done",
              !.result = compensate_distance(compensated.camera_params,
                                             compensated.slant_distance,
                                             compensated.y_pixel,
                                             compensated.object_type)]
    /\ UNCHANGED <<last_traffic_light_state, last_traffic_light_distance,
                   last_reported_cars, last_reported_persons, frame_counter,
                   detections, frame_rgb, alerts, light_alerted, cars_alerted_at,
                   persons_alerted_at, car_seen_at,
                   second, fed, scene, calls, sampled, overlapped, classified>>

InitCompensator ==
    /\ Constructed
    /\ second = Fresh
    /\ fed = [first |-> <<>>, second |-> <<>>, reset |-> FALSE]
    /\ scene = [anchor |-> TRUE, boxes |-> <<>>]
    /\ calls = NoCalls
    /\ sampled = [pc |-> "idle"]
    /\ compensated \in CompensatorCalls
    /\ overlapped = [pc |-> "idle"]
    /\ classified = [pc |-> "idle"]

(***************************************************************************)
(* Specifications                                                          *)
(***************************************************************************)
Analyze ==
    /\ frame_counter < MaxFrame
    /\ \E f \in MixedFrames : analyze(f)
    /\ UNCHANGED elsewhere

AnalyzeLights ==
    /\ frame_counter < MaxFrame
    /\ \E f \in LightFrames : analyze(f)
    /\ UNCHANGED elsewhere

AnalyzeTracked ==
    /\ frame_counter < MaxFrame
    /\ \E f \in TrackFrames : analyze(f)
    /\ UNCHANGED elsewhere

AnalyzeLong ==
    /\ frame_counter < LongRun
    /\ \E f \in LongFrames : analyze(f)
    /\ UNCHANGED elsewhere

Reset == reset /\ UNCHANGED elsewhere

Next == Analyze \/ Reset

NextLights == AnalyzeLights \/ Reset

NextTracked == AnalyzeTracked \/ Reset

NextLong == AnalyzeLong \/ Reset

Spec == Init /\ [][Next]_vars

SpecLights == Init /\ [][NextLights]_vars

SpecTracked == Init /\ [][NextTracked]_vars

SpecLong == Init /\ [][NextLong]_vars

NextSampler == GetStableDepth

SpecSampler == InitSampler /\ [][NextSampler]_vars

NextCompensator == CompensateDistance

SpecCompensator == InitCompensator /\ [][NextCompensator]_vars

(***************************************************************************)
(* _calculate_iou called on its own: every pair of boxes of IouBoxes, the  *)
(* sides 0, 1 and 2 pixels long and the boxes of the tracked frames.       *)
(***************************************************************************)
IouOrigins == {-1, 0, 1}

IouSides == {0, 1, 2}

IouBoxes ==
    {<<x, y, w, h>> : x \in IouOrigins, y \in {0, 1}, w \in IouSides, h \in IouSides}
    \cup {BoxLeft, BoxShift, BoxSmall, BoxRight}

IouCalls ==
    {[pc |-> "called", bbox1 |-> b1, bbox2 |-> b2, result |-> <<>>] :
        b1 \in IouBoxes, b2 \in IouBoxes}

\* the pending call of _calculate_iou returns
CalculateIou ==
    /\ overlapped.pc = "called"
    /\ overlapped' = [overlapped EXCEPT
                         !.pc = "done",
                         !.result = _calculate_iou(overlapped.bbox1, overlapped.bbox2)]
    /\ UNCHANGED <<last_traffic_light_state, last_traffic_light_distance,
                   last_reported_cars, last_reported_persons, frame_counter,
                   detections, frame_rgb, alerts, light_alerted, cars_alerted_at,
                   persons_alerted_at, car_seen_at,
                   second, fed, scene, calls, sampled, compensated, classified>>

InitIou ==
    /\ Constructed
    /\ second = Fresh
    /\ fed = [first |-> <<>>, second |-> <<>>, reset |-> FALSE]
    /\ scene = [anchor |-> TRUE, boxes |-> <<>>]
    /\ calls = NoCalls
    /\ sampled = [pc |-> "idle"]
    /\ compensated = [pc |-> "idle"]
    /\ overlapped \in IouCalls
    /\ classified = [pc |-> "idle"]

NextIou == CalculateIou

SpecIou == InitIou /\ [][NextIou]_vars

(***************************************************************************)
(* modules/TrafficLightColor.py.  An image is given by its width, its      *)
(* height and its paint: a spot of one colour, spot_w x spot_h pixels at   *)
(* the top left corner, on a ground of another colour.  The colours are    *)
(* those of Palette; cv2.cvtColor(.., COLOR_RGB2HSV) is tabulated for them *)
(* (8-bit: H in 0..179, S and V in 0..255).                                *)
(***************************************************************************)
Palette == {"red", "crimson", "rose", "green", "yellow", "white", "black"}

\* RGB (255,0,0), (255,0,43), (255,195,195), (0,255,0), (255,255,0),
\* (255,255,255), (0,0,0)
RGB2HSV(colour) ==
    CASE colour = "red"     -> <<0, 255, 255>>
      [] colour = "crimson" -> <<175, 255, 255>>
      [] colour = "rose"    -> <<0, 60, 255>>
      [] colour = "green"   -> <<60, 255, 255>>
      [] colour = "yellow"  -> <<30, 255, 255>>
      [] colour = "white"   -> <<0, 0, 255>>
      [] colour = "black"   -> <<0, 0, 0>>

Pixel(img, x, y) ==
    IF x < img.spot_w /\ y < img.spot_h THEN img.spot ELSE img.ground

\* the indices a[lo:hi] selects from an axis of n cells
Slice(lo, hi, n) ==
    LET from == IF lo < 0 THEN Max(0, lo + n) ELSE Min(lo, n)
        to   == IF hi < 0 THEN Max(0, hi + n) ELSE Min(hi, n)
    IN  from..(to - 1)

\* variant: the crop is returned whether or not it is empty
_safe_crop_unchecked(img, bbox) ==
    LET x == bbox[1]  y == bbox[2]  w == bbox[3]  h == bbox[4]
        x1 == Max(0, x)
        y1 == Max(0, y)
        x2 == Min(img.width, x + w)
        y2 == Min(img.height, y + h)
    IN  <<{<<c, r>> : c \in Slice(x1, x2, img.width), r \in Slice(y1, y2, img.height)}>>

\* _safe_crop: None (<<>>) or the cells of img[y1:y2, x1:x2] (<<cells>>)
_safe_crop(img, bbox) ==
    LET x == bbox[1]  y == bbox[2]  w == bbox[3]  h == bbox[4]
        x1 == Max(0, x)
        y1 == Max(0, y)
        x2 == Min(img.width, x + w)
        y2 == Min(img.height, y + h)
    IN  IF x1 >= x2 \/ y1 >= y2
        THEN None
        ELSE <<{<<c, r>> : c \in Slice(x1, x2, img.width), r \in Slice(y1, y2, img.height)}>>

\* cv2.inRange on one pixel
inRange(hsv, lower, upper) ==
    \A k \in 1..3 : lower[k] <= hsv[k] /\ hsv[k] <= upper[k]

red_mask(hsv) ==
    \/ inRange(hsv, <<0, 60, 40>>, <<20, 255, 255>>)
    \/ inRange(hsv, <<160, 60, 40>>, <<180, 255, 255>>)

\* the second assignment to green_mask is the one in force
green_mask(hsv) == inRange(hsv, <<35, 40, 40>>, <<100, 255, 255>>)

white_mask(hsv) == inRange(hsv, <<0, 0, 180>>, <<180, 60, 255>>)

\* the mask of one key of counts, on one pixel
InMask(key, hsv) ==
    CASE key = "red"   -> red_mask(hsv)
      [] key = "green" -> green_mask(hsv)
      [] key = "white" -> white_mask(hsv)

countNonZero(img, roi, key) ==
    Cardinality({p \in roi : InMask(key, RGB2HSV(Pixel(img, p[1], p[2])))})

ColourKeys == <<"red", "green", "white">>

\* max(percentages.items(), key=value)[0]: the first key of the largest count
\* (v / total_pixels * 100 orders as v does)
Dominant(counts) ==
    LET best == CHOOSE i \in 1..3 :
                    /\ \A j \in 1..3 : counts[j] <= counts[i]
                    /\ \A j \in 1..(i - 1) : counts[j] < counts[i]
    IN  best

\* classify_light_color(img_rgb, bbox): the dict returned, percentages as
\* the sequence of fractions <<100 * count, total_pixels>> for red, green,
\* white (<<>>: the empty dict), or the exception raised
ClassifyLightColor(img_rgb, bbox) ==
    LET roi == _safe_crop(img_rgb, bbox)
    IN  IF roi = None
        THEN [dominant |-> "unknown", percentages |-> <<>>, raised |-> "None"]
        ELSE IF roi[1] = {}
        THEN [dominant |-> "None", percentages |-> <<>>, raised |-> "cv2.error"]
        ELSE LET total_pixels == Cardinality(roi[1])
                 counts == <<countNonZero(img_rgb, roi[1], "red"),
                             countNonZero(img_rgb, roi[1], "green"),
                             countNonZero(img_rgb, roi[1], "white")>>
                 percentages == [k \in 1..3 |-> <<100 * counts[k], total_pixels>>]
                 dominant == Dominant(counts)
             IN  [dominant |-> IF percentages[dominant][1] < 5 * percentages[dominant][2]
                               THEN "unknown" ELSE ColourKeys[dominant],
                  percentages |-> percentages, raised |-> "None"]

Images ==
    {[width |-> s[1], height |-> s[2], spot |-> spot, ground |-> ground,
      spot_w |-> sw, spot_h |-> 1] :
        s \in {<<7, 4>>, <<1, 1>>, <<0, 0>>}, spot \in Palette,
        ground \in {"black", "white", "green"}, sw \in {1, 2}}

LightBoxes ==
    {<<x, y, w, h>> : x \in {-1, 0, 1, 7}, y \in {-1, 0, 4},
                      w \in {-1, 0, 1, 5, 7, 9}, h \in {0, 1, 3, 4}}

ClassifierCalls ==
    {[pc |-> "called", img_rgb |-> img, bbox |-> bbox, result |-> <<>>] :
        img \in Images, bbox \in LightBoxes}

\* the pending call of classify_light_color returns or raises
ClassifyLight ==
    /\ classified.pc = "called"
    /\ classified' = [classified EXCEPT
                         !.pc = "done",
                         !.result = ClassifyLightColor(classified.img_rgb,
                                                       classified.bbox)]
    /\ UNCHANGED <<last_traffic_light_state, last_traffic_light_distance,
                   last_reported_cars, last_reported_persons, frame_counter,
                   detections, frame_rgb, alerts, light_alerted, cars_alerted_at,
                   persons_alerted_at, car_seen_at,
                   second, fed, scene, calls, sampled, compensated, overlapped>>

InitClassifier ==
    /\ Constructed
    /\ second = Fresh
    /\ fed = [first |-> <<>>, second |-> <<>>, reset |-> FALSE]
    /\ scene = [anchor |-> TRUE, boxes |-> <<>>]
    /\ calls = NoCalls
    /\ sampled = [pc |-> "idle"]
    /\ compensated = [pc |-> "idle"]
    /\ overlapped = [pc |-> "idle"]
    /\ classified \in ClassifierCalls

NextClassifier == ClassifyLight

SpecClassifier == InitClassifier /\ [][NextClassifier]_vars

(***************************************************************************)
(* Two threads calling analyze on the one analyzer, each call a sequence   *)
(* of steps at the granularity of its reads and writes of frame_counter,   *)
(* the traffic-light memory and the tracked tables:                        *)
(*   load_counter, store_counter     self.frame_counter += 1   (line 38)   *)
(*   read_lights, write_lights       _check_traffic_lights  (176-193)      *)
(*   read_cars, write_cars           _check_cars            (223-297)      *)
(*   read_persons, write_persons     _check_persons         (306-377)      *)
(*   cleanup_and_return              cleanup and return     (59-61)        *)
(* A read step computes the check's alerts and the values it will store    *)
(* from what the attributes hold at that moment; the write step stores.    *)
(***************************************************************************)
MaxWarm == 1

ThreadFrames ==
    {[dets |-> ds, rgb |-> FALSE] :
        ds \in {<<>>,
                <<Plain("car", 20, BoxLeft)>>,
                <<Plain("car", 28, BoxShift)>>,
                <<Plain("R_Signal", 20, LightBox)>>,
                <<Plain("person", 20, BoxLeft)>>}}

attributes == <<last_traffic_light_state, last_traffic_light_distance,
                last_reported_cars, last_reported_persons, frame_counter>>

histories == <<detections, frame_rgb, alerts, light_alerted, cars_alerted_at,
               persons_alerted_at, car_seen_at>>

apart == <<second, fed, scene, sampled, compensated, overlapped, classified>>

\* the analyzer's attributes as a value (alerts: the list of the latest atomic call)
Self ==
    [last_traffic_light_state |-> last_traffic_light_state,
     last_traffic_light_distance |-> last_traffic_light_distance,
     last_reported_cars |-> last_reported_cars,
     last_reported_persons |-> last_reported_persons,
     frame_counter |-> frame_counter,
     alerts |-> alerts]

\* a call by the main loop alone, before any concurrent calls
AnalyzeAlone ==
    /\ calls = NoCalls
    /\ frame_counter < MaxWarm
    /\ \E f \in ThreadFrames : analyze(f)
    /\ UNCHANGED elsewhere

\* both threads call analyze, each with its frame, with or without a lock
\* around the call
Call ==
    /\ calls = NoCalls
    /\ \E f1, f2 \in ThreadFrames, serialized \in BOOLEAN :
          calls' = [running |->
                       [t \in Threads |->
                           [pc |-> "load_counter", f |-> IF t = 1 THEN f1 ELSE f2,
                            loaded |-> 0, light |-> <<>>, cars |-> <<>>,
                            persons |-> <<>>, alerts |-> <<>>]],
                    serialized |-> serialized, lock |-> 0, before |-> Self]
    /\ UNCHANGED <<attributes, histories, apart>>

\* thread t is at the step and, when the calls are serialized, holds the lock
\* or can take it to begin
MayStep(t, step) ==
    /\ calls.running[t].pc = step
    /\ calls.serialized =>
          \/ calls.lock = t
          \/ calls.lock = 0 /\ step = "load_counter"

load_counter(t) ==
    /\ MayStep(t, "load_counter")
    /\ calls' = [calls EXCEPT !.running[t].loaded = frame_counter,
                              !.running[t].pc = "store_counter",
                              !.lock = IF calls.serialized THEN t ELSE 0]
    /\ UNCHANGED <<attributes, histories, apart>>

\* variant: the counter value stored is the one seen when the call was issued
store_counter_stale(t) ==
    /\ MayStep(t, "store_counter")
    /\ frame_counter' = calls.before.frame_counter + 1
    /\ calls' = [calls EXCEPT !.running[t].pc = "read_lights"]
    /\ UNCHANGED <<last_traffic_light_state, last_traffic_light_distance,
                   last_reported_cars, last_reported_persons, histories, apart>>

store_counter(t) ==
    /\ MayStep(t, "store_counter")
    /\ frame_counter' = calls.running[t].loaded + 1
    /\ calls' = [calls EXCEPT !.running[t].pc = "read_lights"]
    /\ UNCHANGED <<last_traffic_light_state, last_traffic_light_distance,
                   last_reported_cars, last_reported_persons, histories, apart>>

read_lights(t) ==
    /\ MayStep(t, "read_lights")
    /\ calls' = [calls EXCEPT
                    !.running[t].light =
                        _check_traffic_lights(calls.running[t].f.dets,
                                              calls.running[t].f.rgb,
                                              last_traffic_light_state,
                                              last_traffic_light_distance),
                    !.running[t].pc = "write_lights"]
    /\ UNCHANGED <<attributes, histories, apart>>

write_lights(t) ==
    /\ MayStep(t, "write_lights")
    /\ last_traffic_light_state' = calls.running[t].light.state
    /\ last_traffic_light_distance' = calls.running[t].light.distance
    /\ calls' = [calls EXCEPT !.running[t].pc = "read_cars"]
    /\ UNCHANGED <<last_reported_cars, last_reported_persons, frame_counter,
                   histories, apart>>

\* the loop reads self.last_reported_cars and self.frame_counter (lines 242, 275, 292)
read_cars(t) ==
    /\ MayStep(t, "read_cars")
    /\ calls' = [calls EXCEPT
                    !.running[t].cars =
                        _check_cars(calls.running[t].f.dets, img_width,
                                    last_reported_cars, frame_counter),
                    !.running[t].pc = "write_cars"]
    /\ UNCHANGED <<attributes, histories, apart>>

write_cars(t) ==
    /\ MayStep(t, "write_cars")
    /\ last_reported_cars' = calls.running[t].cars.current
    /\ calls' = [calls EXCEPT !.running[t].pc = "read_persons"]
    /\ UNCHANGED <<last_traffic_light_state, last_traffic_light_distance,
                   last_reported_persons, frame_counter, histories, apart>>

read_persons(t) ==
    /\ MayStep(t, "read_persons")
    /\ calls' = [calls EXCEPT
                    !.running[t].persons =
                        _check_persons(calls.running[t].f.dets, img_width,
                                       last_reported_persons, frame_counter),
                    !.running[t].pc = "write_persons"]
    /\ UNCHANGED <<attributes, histories, apart>>

write_persons(t) ==
    /\ MayStep(t, "write_persons")
    /\ last_reported_persons' = calls.running[t].persons.current
    /\ calls' = [calls EXCEPT !.running[t].pc = "cleanup_and_return"]
    /\ UNCHANGED <<last_traffic_light_state, last_traffic_light_distance,
                   last_reported_cars, frame_counter, histories, apart>>

cleanup_and_return(t) ==
    /\ MayStep(t, "cleanup_and_return")
    /\ last_reported_cars' = _cleanup_expired_objects(last_reported_cars, frame_counter)
    /\ last_reported_persons' =
          _cleanup_expired_objects(last_reported_persons, frame_counter)
    /\ calls' = [calls EXCEPT
                    !.running[t].alerts = calls.running[t].light.alert
                                             \o calls.running[t].cars.alerts
                                             \o calls.running[t].persons.alerts,
                    !.running[t].pc = "done",
                    !.lock = 0]
    /\ UNCHANGED <<last_traffic_light_state, last_traffic_light_distance,
                   frame_counter, histories, apart>>

NextThreads ==
    \/ AnalyzeAlone
    \/ Call
    \/ \E t \in Threads : load_counter(t)
    \/ \E t \in Threads : store_counter(t)
    \/ \E t \in Threads : read_lights(t)
    \/ \E t \in Threads : write_lights(t)
    \/ \E t \in Threads : read_cars(t)
    \/ \E t \in Threads : write_cars(t)
    \/ \E t \in Threads : read_persons(t)
    \/ \E t \in Threads : write_persons(t)
    \/ \E t \in Threads : cleanup_and_return(t)

SpecThreads == Init /\ [][NextThreads]_vars

(***************************************************************************)
(* Frames that may hold detections without distance_m, on which analyze    *)
(* raises partway.                                                         *)
(***************************************************************************)
FaultySingles ==
    {Plain("R_Signal", 20, LightBox), Plain("car", 20, BoxLeft),
     Plain("person", 20, BoxLeft),
     RawOnly("traffic light", 420, LightBox), RawOnly("car", 420, BoxLeft),
     RawOnly("person", 420, BoxLeft), RawOnly("dog", 420, BoxRight)}

FaultyFrames == Frames(FaultySingles, FaultySingles, {FALSE})

AnalyzeSound ==
    /\ frame_counter < MaxFrame
    /\ \E f \in FaultyFrames : FailingStage(f) = "none" /\ analyze(f)
    /\ UNCHANGED elsewhere

AnalyzeRaises ==
    /\ frame_counter < MaxFrame
    /\ \E f \in FaultyFrames : analyze_raises(f)
    /\ UNCHANGED elsewhere

NextFaulty == AnalyzeSound \/ AnalyzeRaises \/ Reset

SpecFaulty == Init /\ [][NextFaulty]_vars

(***************************************************************************)
(* The main loop: each frame the reference anchor is found or not and the  *)
(* detector sees some boxes; FindObjects turns them into the detections    *)
(* handed to analyze.  A box is given as the detection FindObjects makes   *)
(* of it when the anchor is there.                                         *)
(***************************************************************************)
\* FindObjects: the whole detection loop is under `if bool(target_object_depth_val)`
FindObjects(anchor, boxes) == IF anchor THEN boxes ELSE <<>>

SceneBoxes ==
    {<<>>} \cup {<<d>> : d \in MixedSingles}
    \cup {<<Plain("car", 20, BoxLeft), Plain("person", 28, BoxRight)>>}

MainLoop ==
    /\ frame_counter < MaxFrame
    /\ \E anchor \in BOOLEAN, boxes \in SceneBoxes :
          /\ scene' = [anchor |-> anchor, boxes |-> boxes]
          /\ analyze([dets |-> FindObjects(anchor, boxes), rgb |-> TRUE])
    /\ UNCHANGED <<second, fed, calls, sampled, compensated, overlapped, classified>>

NextMain == MainLoop

SpecMain == Init /\ [][NextMain]_vars

(***************************************************************************)
(* Two analyzers, each fed its own stream of frames; the first may be      *)
(* reset.  fed records the frames given to the first since it was          *)
(* constructed or last reset, the frames given to the second, and whether  *)
(* the first has been reset after analyzing at least one frame.            *)
(***************************************************************************)
MaxFed == 2

TwoFrames ==
    {[dets |-> ds, rgb |-> FALSE] :
        ds \in {<<>>,
                <<Plain("car", 20, BoxLeft)>>,
                <<Plain("car", 28, BoxShift)>>,
                <<Plain("R_Signal", 20, LightBox)>>,
                <<Plain("traffic light", 20, LightBox), Plain("person", 20, BoxLeft)>>}}

AnalyzeFirst ==
    /\ frame_counter < MaxFed
    /\ \E f \in TwoFrames :
          /\ analyze(f)
          /\ fed' = [fed EXCEPT !.first = Append(@, f)]
    /\ UNCHANGED <<second, scene, calls, sampled, compensated, overlapped, classified>>

ResetFirst ==
    /\ reset
    /\ fed' = [fed EXCEPT !.first = <<>>, !.reset = @ \/ fed.first # <<>>]
    /\ UNCHANGED <<second, scene, calls, sampled, compensated, overlapped, classified>>

AnalyzeSecond ==
    /\ second.frame_counter < MaxFed
    /\ \E f \in TwoFrames :
          /\ analyze_second(f)
          /\ fed' = [fed EXCEPT !.second = Append(@, f)]
    /\ UNCHANGED <<last_traffic_light_state, last_traffic_light_distance,
                   last_reported_cars, last_reported_persons, frame_counter,
                   detections, frame_rgb, alerts, light_alerted, cars_alerted_at,
                   persons_alerted_at, car_seen_at,
                   scene, calls, sampled, compensated, overlapped, classified>>

NextTwo == AnalyzeFirst \/ ResetFirst \/ AnalyzeSecond

SpecTwo == Init /\ [][NextTwo]_vars

(***************************************************************************)
(* Vocabulary of the claims                                                *)
(***************************************************************************)
\* this step is an analyze call (reset puts the frame counter back to 0)
IsAnalyzeStep == frame_counter' = frame_counter + 1

HasLight(dets, rgb) == TrafficLights(dets, rgb) # <<>>

\* the nearest traffic light of a frame, with its colour attached
Selected(dets, rgb) == Nearest(TrafficLights(dets, rgb))

WithPriority(as, p) == SelectSeqBy(as, {a \in Range(as) : a.priority = p})

HasLightAlert(as) == WithPriority(as, 1) # <<>>

\* the distance of the latest traffic-light alert emitted, None if there is none
light_alerted_at ==
    IF light_alerted = <<>> THEN None ELSE Some(light_alerted[1].distance_m)

(***************************************************************************)
(* C1  A frame with a traffic light emits a priority-1 alert iff (a) the   *)
(* derived state differs from the stored state, or (b) the distance is     *)
(* below 3.0 m and differs by more than 0.5 m from the distance at the     *)
(* last EMITTED traffic-light report (or there is none).  As claimed.      *)
(***************************************************************************)
C1_AsClaimed ==
    [][(IsAnalyzeStep /\ HasLight(detections', frame_rgb')) =>
        LET light == Selected(detections', frame_rgb')
            state == DeriveState(light).state
        IN  HasLightAlert(alerts') <=>
              \/ state # last_traffic_light_state
              \/ /\ light.distance_m < traffic_light_distance_threshold
                 /\ \/ light_alerted_at = None
                    \/ Abs(light.distance_m - light_alerted_at[1]) > distance_change_min
      ]_vars

(***************************************************************************)
(* C1 amended  ... or (b) the distance is below 3.0 m and differs by more  *)
(* than 0.5 m from the distance stored by the preceding analyze call (that *)
(* frame's selected light, alerted or not), or none is stored.             *)
(***************************************************************************)
C1_Amended ==
    [][(IsAnalyzeStep /\ HasLight(detections', frame_rgb')) =>
        LET light == Selected(detections', frame_rgb')
            state == DeriveState(light).state
        IN  HasLightAlert(alerts') <=>
              \/ state # last_traffic_light_state
              \/ /\ light.distance_m < traffic_light_distance_threshold
                 /\ \/ last_traffic_light_distance = None
                    \/ Abs(light.distance_m - last_traffic_light_distance[1])
                          > distance_change_min
      ]_vars

\* a close light drifted more than 0.5 m away from the alerted distance in
\* steps of at most 0.5 m, and the latest frame raised no alert
C1_Witness ==
    /\ HasLight(detections, frame_rgb)
    /\ ~HasLightAlert(alerts)
    /\ light_alerted_at # None
    /\ last_traffic_light_distance[1] < traffic_light_distance_threshold
    /\ Abs(last_traffic_light_distance[1] - light_alerted_at[1]) > distance_change_min

(***************************************************************************)
(* C5  Traffic-light hysteresis.  For two consecutive frames that each     *)
(* hold a traffic light: an unchanged derived state with a distance change *)
(* of at most 0.5 m gives no traffic-light alert on the second frame; a    *)
(* changed derived state gives one, at any distance (also at or beyond     *)
(* 3.0 m), carrying the new state.                                         *)
(***************************************************************************)
C5_Hysteresis ==
    [][(/\ IsAnalyzeStep
        /\ HasLight(detections, frame_rgb)
        /\ HasLight(detections', frame_rgb')) =>
        LET before == Selected(detections, frame_rgb)
            now == Selected(detections', frame_rgb')
            same == DeriveState(before).state = DeriveState(now).state
        IN  /\ (same /\ Abs(now.distance_m - before.distance_m) <= distance_change_min)
                  => ~HasLightAlert(alerts')
            /\ (~same) =>
                  /\ Len(WithPriority(alerts', 1)) = 1
                  /\ alerts'[1].state = DeriveState(now).state
                  /\ alerts'[1].distance_m = now.distance_m
      ]_vars

\* the second of two frames with the same state, 0.5 m or less apart: no alert
C5_Witness ==
    /\ HasLight(detections, frame_rgb)
    /\ ~HasLightAlert(alerts)
    /\ light_alerted_at # None
    /\ last_traffic_light_distance[1] < traffic_light_distance_threshold
    /\ last_traffic_light_distance # light_alerted_at
    /\ Abs(last_traffic_light_distance[1] - light_alerted_at[1]) <= distance_change_min

(***************************************************************************)
(* C7  After every analyze call the traffic-light memory is the current    *)
(* frame's observation, alert or no alert: with a light in the frame, the  *)
(* derived state and the distance of the selected (nearest) light; with no *)
(* light, both none.                                                       *)
(***************************************************************************)
C7_MemoryIsCurrentFrame ==
    IF HasLight(detections, frame_rgb)
    THEN /\ last_traffic_light_state =
                DeriveState(Selected(detections, frame_rgb)).state
         /\ last_traffic_light_distance =
                Some(Selected(detections, frame_rgb).distance_m)
    ELSE /\ last_traffic_light_state = NoState
         /\ last_traffic_light_distance = None

\* a frame with a light that raised no alert and still replaced the stored distance
C7_Witness ==
    /\ HasLight(detections, frame_rgb)
    /\ ~HasLightAlert(alerts)
    /\ light_alerted_at # None
    /\ last_traffic_light_distance # light_alerted_at
    /\ last_traffic_light_distance[1] >= traffic_light_distance_threshold

(***************************************************************************)
(* C8  A selected detection with the stop-sign label yields the state      *)
(* `stop` (and any alert for it is a STOP SIGN alert), whatever colour is  *)
(* attached to it or classified for it.  As claimed.                       *)
(***************************************************************************)
C8_StopSignIsStop ==
    (/\ HasLight(detections, frame_rgb)
     /\ Contains("stop sign", Lower(Selected(detections, frame_rgb).label))) =>
        /\ last_traffic_light_state = "stop"
        /\ \A i \in 1..Len(alerts) :
              alerts[i].priority = 1 =>
                 alerts[i].state = "stop" /\ alerts[i].message[1] = "STOP SIGN"

(***************************************************************************)
(* C9  The stored state is one of red, green, stop, unknown_yellow,        *)
(* unknown, none; a yellow colour on a light without red/green label or    *)
(* colour is stored as unknown_yellow, so a light turning from             *)
(* unclassifiable to yellow (or back) is a state change and alerts.  As    *)
(* claimed.                                                                *)
(***************************************************************************)
IsYellow(light) ==
    /\ Lower(light.label) = "traffic light"
    /\ light.color = "yellow"

IsUnclassifiable(light) ==
    /\ Lower(light.label) = "traffic light"
    /\ light.color \notin {"red", "green", "yellow"}

RedLabel(label) ==
    Contains("r_signal", label) \/ Contains("r_light", label) \/ Contains("red", label)

GreenLabel(label) ==
    Contains("g_signal", label) \/ Contains("g_light", label) \/ Contains("green", label)

AlertView(a) == <<a.priority, a.distance_m, a.position>>

Views(as) == [i \in 1..Len(as) |-> AlertView(as[i])]

\* The alerts due for the close detections of one class, in detection order:
\* one for each detection that matches no tracked entry, and one for each
\* matched detection whose distance differs by more than 0.5 m from the
\* reference distance of the entry it is matched to.  The reference is the
\* distance at the entry's latest alert (mode "alerted") or the distance the
\* entry stores (mode "stored").
RECURSIVE DueAlerts(_, _, _, _, _)
DueAlerts(close, tracked, alerted_at, mode, priority) ==
    IF close = <<>> THEN <<>>
    ELSE LET d == Head(close)
             m == FirstMatch(d.bbox, tracked)
             reference == IF mode = "alerted"
                          THEN alerted_at[Lookup(alerted_at, tracked[m].id)].distance
                          ELSE tracked[m].distance
             due == m = 0 \/ Abs(d.distance_m - reference) > distance_change_min
             rest == DueAlerts(Tail(close), tracked, alerted_at, mode, priority)
         IN  IF due
             THEN <<<<priority, d.distance_m, _get_position_text(d.bbox, img_width)>>>>
                     \o rest
             ELSE rest

(***************************************************************************)
(* C2  Every close vehicle / pedestrian detection matched to a tracked     *)
(* object raises an alert iff its distance differs by more than 0.5 m from *)
(* the distance at which that object was last ALERTED, and the alert       *)
(* carries the detection's distance and position (unmatched detections     *)
(* always alert).  As claimed.                                             *)
(***************************************************************************)
C2_AsClaimed ==
    [][IsAnalyzeStep =>
        /\ Views(WithPriority(alerts', 2)) =
              DueAlerts(CloseCars(detections'), last_reported_cars,
                        cars_alerted_at, "alerted", 2)
        /\ Views(WithPriority(alerts', 3)) =
              DueAlerts(ClosePersons(detections'), last_reported_persons,
                        persons_alerted_at, "alerted", 3)
      ]_vars

(***************************************************************************)
(* C2 amended  ... iff its distance differs by more than 0.5 m from the    *)
(* distance stored in the tracked entry it is matched to, which is the     *)
(* distance of the detection that created or refreshed the entry on the    *)
(* preceding frame, alerted or not; the alert carries the detection's      *)
(* distance and position.                                                  *)
(***************************************************************************)
StoresLatest(table, close, fc) ==
    \A i \in 1..Len(table) :
        /\ table[i].frame = fc
        /\ \E j \in 1..Len(close) :
              close[j].bbox = table[i].bbox /\ close[j].distance_m = table[i].distance

C2_Amended ==
    /\ [][IsAnalyzeStep =>
            /\ Views(WithPriority(alerts', 2)) =
                  DueAlerts(CloseCars(detections'), last_reported_cars,
                            cars_alerted_at, "stored", 2)
            /\ Views(WithPriority(alerts', 3)) =
                  DueAlerts(ClosePersons(detections'), last_reported_persons,
                            persons_alerted_at, "stored", 3)
         ]_vars
    /\ [](/\ StoresLatest(last_reported_cars, CloseCars(detections), frame_counter)
          /\ StoresLatest(last_reported_persons, ClosePersons(detections), frame_counter))

\* a car tracked since an earlier frame at BoxLeft is seen again, shifted to
\* the centre band and more than 0.5 m off: one alert, new distance and position
C2_Witness ==
    /\ Len(detections) = 1
    /\ Len(last_reported_cars) = 1
    /\ last_reported_cars[1].id[4] < frame_counter
    /\ last_reported_cars[1].id[2] = BoxLeft[1]
    /\ last_reported_cars[1].bbox = BoxShift
    /\ Len(alerts) = 1
    /\ AlertView(alerts[1]) = <<2, detections[1].distance_m, "in the CENTER">>

(***************************************************************************)
(* C3  A tracked entry that no close detection of the frame matches is not *)
(* dropped by the frame's table replacement: while it is at most           *)
(* object_timeout_frames old it stays in the table with its bbox, distance *)
(* and last_seen_frame.  As claimed.                                       *)
(***************************************************************************)
MatchedEntries(close, tracked) ==
    {FirstMatch(close[i].bbox, tracked) : i \in 1..Len(close)} \ {0}

Survives(tracked, matched, table, fc) ==
    \A i \in 1..Len(tracked) :
        (i \notin matched /\ fc - tracked[i].frame <= object_timeout_frames)
            => tracked[i] \in Range(table)

C3_UnmatchedEntriesStay ==
    [][IsAnalyzeStep =>
        /\ Survives(last_reported_cars,
                    MatchedEntries(CloseCars(detections'), last_reported_cars),
                    last_reported_cars', frame_counter')
        /\ Survives(last_reported_persons,
                    MatchedEntries(ClosePersons(detections'), last_reported_persons),
                    last_reported_persons', frame_counter')
      ]_vars

(***************************************************************************)
(* C10  Every close detection that matches no tracked object of its class  *)
(* raises exactly one alert in that frame and is entered in the table      *)
(* under an identity of its own: at the end of the frame each such         *)
(* detection has its own entry (its bbox and distance, created this        *)
(* frame), so new objects with different boxes never share an entry.       *)
(* As claimed.                                                             *)
(***************************************************************************)
Unmatched(close, tracked) ==
    SelectSeqBy(close, {d \in Range(close) : FirstMatch(d.bbox, tracked) = 0})

NewEntries(table, fc) == {i \in 1..Len(table) : table[i].id[4] = fc}

EnteredApart(new, table, fc) ==
    /\ \A i \in 1..Len(new) :
          \E j \in NewEntries(table, fc) :
              table[j].bbox = new[i].bbox /\ table[j].distance = new[i].distance_m
    /\ Cardinality(NewEntries(table, fc)) = Cardinality({new[i].bbox : i \in 1..Len(new)})

C10_NewObjectsOwnEntries ==
    [][IsAnalyzeStep =>
        /\ Len(WithPriority(alerts', 2)) >=
              Len(Unmatched(CloseCars(detections'), last_reported_cars))
        /\ EnteredApart(Unmatched(CloseCars(detections'), last_reported_cars),
                        last_reported_cars', frame_counter')
        /\ Len(WithPriority(alerts', 3)) >=
              Len(Unmatched(ClosePersons(detections'), last_reported_persons))
        /\ EnteredApart(Unmatched(ClosePersons(detections'), last_reported_persons),
                        last_reported_persons', frame_counter')
      ]_vars

(***************************************************************************)
(* C6  Pedestrian tracking, on frames whose only close pedestrian is the   *)
(* one followed: seen with the same box (IOU > 0.3) and an unchanged       *)
(* distance on consecutive frames it alerts exactly once, on the first     *)
(* frame; when its distance later differs by more than 0.5 m from the      *)
(* value it was ALERTED at, that frame raises a further alert.  As         *)
(* claimed.                                                                *)
(***************************************************************************)
OnePedestrian(dets) == Len(ClosePersons(dets)) = 1

SamePedestrian(p, q) == IouAboveThreshold(_calculate_iou(p.bbox, q.bbox))

PersonAlerts(as) == Views(WithPriority(as, 3))

C6_FirstSighting ==
    (IsAnalyzeStep /\ OnePedestrian(detections')
       /\ FirstMatch(ClosePersons(detections')[1].bbox, last_reported_persons) = 0)
    => Len(PersonAlerts(alerts')) = 1

C6_Unchanged ==
    (IsAnalyzeStep /\ OnePedestrian(detections) /\ OnePedestrian(detections')
       /\ SamePedestrian(ClosePersons(detections')[1], ClosePersons(detections)[1])
       /\ ClosePersons(detections')[1].distance_m = ClosePersons(detections)[1].distance_m)
    => PersonAlerts(alerts') = <<>>

NoneTooOld(table, fc) ==
    \A i \in 1..Len(table) : fc - table[i].frame <= object_timeout_frames

CleanupKeeps(before, after, fc) ==
    \A i \in 1..Len(before) :
        fc - before[i].frame <= object_timeout_frames => before[i] \in Range(after)

\* the vehicle was tracked once and has not been seen for timeout + 1 frames
UnseenForTimeout ==
    car_seen_at > 0 /\ frame_counter - car_seen_at >= object_timeout_frames + 1

C4_Eviction ==
    /\ [](/\ NoneTooOld(last_reported_cars, frame_counter)
          /\ UnseenForTimeout => last_reported_cars = <<>>)
    /\ [][(IsAnalyzeStep /\ UnseenForTimeout /\ CloseCars(detections') # <<>>) =>
            /\ Len(WithPriority(alerts', 2)) = Len(CloseCars(detections'))
            /\ \A i \in 1..Len(last_reported_cars') :
                  last_reported_cars'[i].id[4] = frame_counter'
         ]_vars
    /\ [][IsAnalyzeStep =>
            /\ CleanupKeeps(_check_cars(detections', img_width, last_reported_cars,
                                        frame_counter').current,
                            last_reported_cars', frame_counter')
            /\ CleanupKeeps(_check_persons(detections', img_width, last_reported_persons,
                                           frame_counter').current,
                            last_reported_persons', frame_counter')
         ]_vars

\* a vehicle that was tracked has now been unseen for exactly timeout + 1
\* frames and the cleanup pass of this frame leaves the table without it
C4_Witness ==
    /\ UnseenForTimeout
    /\ frame_counter = car_seen_at + object_timeout_frames + 1
    /\ CloseCars(detections) = <<>>
    /\ last_reported_cars = <<>>

(***************************************************************************)
(* C11  The list analyze returns is ordered by priority: every priority-1  *)
(* alert comes before every priority-2 alert, which comes before every     *)
(* priority-3 alert, whatever the order of the detections in the frame;    *)
(* and the list holds at most one priority-1 alert.                        *)
(***************************************************************************)
C11_PriorityOrder ==
    /\ \A i \in 1..Len(alerts) : alerts[i].priority \in {1, 2, 3}
    /\ \A i, j \in 1..Len(alerts) : i < j => alerts[i].priority <= alerts[j].priority
    /\ Len(WithPriority(alerts, 1)) <= 1

\* a frame listing a pedestrian before a vehicle returns the vehicle's alert first
C11_Witness ==
    /\ Len(detections) = 2
    /\ Lower(detections[1].label) = "person"
    /\ Lower(detections[2].label) \in vehicle_labels
    /\ Len(alerts) = 2
    /\ alerts[1].priority = 2
    /\ alerts[2].priority = 3

(***************************************************************************)
(* C13  Only detections of the class's label set at a distance strictly    *)
(* below 3.0 m take part in the vehicle / pedestrian logic: every          *)
(* priority-2 alert and every tracked vehicle entry of a frame comes from  *)
(* a vehicle-labelled detection of that frame nearer than 3.0 m, every     *)
(* priority-3 alert and tracked pedestrian entry from a person nearer than *)
(* 3.0 m, and there are no more alerts or entries than such detections.    *)
(***************************************************************************)
NearVehicle(d) == Lower(d.label) \in vehicle_labels /\ d.distance_m < 30

NearPerson(d) == Lower(d.label) = "person" /\ d.distance_m < 30

\* how many detections of the frame satisfy near
CountNear(dets, near(_)) == Cardinality({i \in 1..Len(dets) : near(dets[i])})

ComesFromNear(as, table, dets, near(_)) ==
    /\ \A i \in 1..Len(as) :
          \E j \in 1..Len(dets) :
              /\ near(dets[j])
              /\ as[i].distance_m = dets[j].distance_m
              /\ as[i].position = _get_position_text(dets[j].bbox, img_width)
    /\ \A i \in 1..Len(table) :
          \E j \in 1..Len(dets) :
              /\ near(dets[j])
              /\ table[i].bbox = dets[j].bbox
              /\ table[i].distance = dets[j].distance_m
              /\ table[i].frame = frame_counter
    /\ Len(as) <= CountNear(dets, near)
    /\ Len(table) <= CountNear(dets, near)

C13_OnlyNearTakePart ==
    /\ ComesFromNear(WithPriority(alerts, 2), last_reported_cars, detections, NearVehicle)
    /\ ComesFromNear(WithPriority(alerts, 3), last_reported_persons, detections, NearPerson)

\* a vehicle tracked on the preceding frame is seen at exactly 3.0 m: no
\* alert, and its entry is not refreshed
C13_Witness ==
    /\ frame_counter > 1
    /\ car_seen_at = frame_counter - 1
    /\ Len(detections) = 1
    /\ Lower(detections[1].label) \in vehicle_labels
    /\ detections[1].distance_m = 30
    /\ alerts = <<>>
    /\ last_reported_cars = <<>>

(***************************************************************************)
(* C18  get_stable_depth: for every non-empty depth field and every        *)
(* integer bounding box (negative origin, zero or oversized width and      *)
(* height, a box outside the field), every coordinate the center, grid,    *)
(* edges and adaptive strategies look up lies within 0..img_w-1 by         *)
(* 0..img_h-1; no lookup is out of range or wraps around.                  *)
(***************************************************************************)
Recognised == {"center", "grid", "edges", "adaptive"}

C18_LookupsWithinField ==
    (sampled.pc = "done" /\ sampled.strategy \in Recognised) =>
        /\ sampled.result.raised = "None"
        /\ sampled.result.lookups # <<>>
        /\ \A n \in 1..Len(sampled.result.lookups) :
              /\ sampled.result.lookups[n][1] \in 0..(sampled.field.img_w - 1)
              /\ sampled.result.lookups[n][2] \in 0..(sampled.field.img_h - 1)

\* center sampling of a box that starts left of a 4 x 3 field and is far wider
\* than it: one lookup, inside the field
C18_Witness ==
    /\ sampled.pc = "done"
    /\ sampled.strategy = "center"
    /\ sampled.field = [img_w |-> 4, img_h |-> 3]
    /\ sampled.bbox = <<-5, 200, 300, 0>>
    /\ sampled.result.lookups = <<<<2, 2>>>>

(***************************************************************************)
(* C19  get_stable_depth called with a strategy name other than center,    *)
(* grid, edges or adaptive raises (ValueError) for every depth field and   *)
(* bounding box: it looks nothing up and returns no depth value.           *)
(***************************************************************************)
C19_UnknownStrategyRaises ==
    (sampled.pc = "done" /\ sampled.strategy \notin Recognised) =>
        /\ sampled.result.raised = "ValueError"
        /\ sampled.result.lookups = <<>>
        /\ sampled.result.value = <<>>

C19_Witness ==
    /\ sampled.pc = "done"
    /\ sampled.strategy = "median"
    /\ sampled.bbox = <<3, 3, 30, 30>>
    /\ sampled.result.raised = "ValueError"

(***************************************************************************)
(* C20  compensate_distance returns the slant distance unchanged whenever  *)
(* |pitch| < 3 degrees, and otherwise whenever |object_height -            *)
(* camera_height| < 0.5 m; in particular at the vertical image centre      *)
(* (pitch 0) for any object type, and at any pixel row for a label absent  *)
(* from the height table (its height defaults to the camera height).       *)
(***************************************************************************)
\* |image_height / 2 - y| * fov / image_height < 3, in whole numbers
WithinThreeDegrees(call) ==
    Abs(call.camera_params.image_height - 2 * call.y_pixel)
        * FovDegrees(call.camera_params) < 6 * call.camera_params.image_height

NearCameraHeight(call) ==
    \/ Lower(call.object_type) \notin DOMAIN OBJECT_HEIGHTS
    \/ Abs(OBJECT_HEIGHTS[Lower(call.object_type)] - CameraHeight(call.camera_params)) < 500

C20_CompensationNoOp ==
    compensated.pc = "done" =>
        /\ (WithinThreeDegrees(compensated) \/ NearCameraHeight(compensated))
              => compensated.result = compensated.slant_distance
        /\ 2 * compensated.y_pixel = compensated.camera_params.image_height
              => compensated.result = compensated.slant_distance
        /\ Lower(compensated.object_type) \notin DOMAIN OBJECT_HEIGHTS
              => compensated.result = compensated.slant_distance

\* a traffic light, 3.5 m above the camera, on the centre row: unchanged
C20_Witness ==
    /\ compensated.pc = "done"
    /\ compensated.object_type = "traffic light"
    /\ compensated.y_pixel = 360
    /\ compensated.slant_distance = 40000
    /\ compensated.result = 40000

\* the compensation does change the distance of that traffic light on a row
\* 12 degrees above the centre
C20_Compensated ==
    /\ compensated.pc = "done"
    /\ compensated.object_type = "traffic light"
    /\ compensated.camera_params = [image_height |-> 720, fov_vertical |-> 60]
    /\ compensated.y_pixel = 216
    /\ compensated.slant_distance = 40000
    /\ compensated.result = 31907

(***************************************************************************)
(* C12  reset() clears all persisted state: after a reset that follows any *)
(* sequence of analyze calls the analyzer's state is that of a freshly     *)
(* constructed analyzer, and for every sequence of frames analyzed since   *)
(* the reset its state and the alerts it returns are those of a fresh      *)
(* analyzer given the same frames.                                         *)
(***************************************************************************)
\* the first analyzer's attributes and latest alert list, as a value
First ==
    [last_traffic_light_state |-> last_traffic_light_state,
     last_traffic_light_distance |-> last_traffic_light_distance,
     last_reported_cars |-> last_reported_cars,
     last_reported_persons |-> last_reported_persons,
     frame_counter |-> frame_counter,
     alerts |-> alerts]

C12_ResetEqualsFresh ==
    fed.reset =>
        /\ fed.first = <<>> => First = Fresh
        /\ fed.first = fed.second => First = second

\* the first analyzer, reset after earlier frames, has since analyzed the same
\* two frames as the never-reset second one, and tracks a vehicle
C12_Witness ==
    /\ fed.reset
    /\ fed.first = fed.second
    /\ Len(fed.first) = 2
    /\ last_reported_cars # <<>>
    /\ last_reported_cars[1].id[4] = 1

(***************************************************************************)
(* C17  Analyzer state is owned per instance: a call of analyze or reset   *)
(* on one analyzer leaves the other's traffic-light state, tracked tables, *)
(* frame counter and latest alerts unchanged, and the state and alerts of  *)
(* an analyzer are those its own frame sequence alone produces from the    *)
(* constructed state, whatever the other analyzer was given in between.    *)
(***************************************************************************)
RECURSIVE RunAlone(_, _)
\* the analyzer value after the frames, none of them seen by anyone else
RunAlone(self, frames) ==
    IF frames = <<>> THEN self
    ELSE RunAlone(Analyzed(self, Head(frames)), Tail(frames))

C17_InstancesApart ==
    /\ [][/\ fed'.second = fed.second => second' = second
          /\ fed'.second # fed.second => First' = First
        ]_vars
    /\ [](/\ second = RunAlone(Fresh, fed.second)
          /\ First = RunAlone(Fresh, fed.first))

\* both analyzers have analyzed two frames, different ones, the first after a
\* reset, and each tracks its own vehicle
C17_Witness ==
    /\ fed.reset
    /\ Len(fed.first) = 2
    /\ Len(fed.second) = 2
    /\ last_reported_cars # <<>>
    /\ second.last_reported_cars # <<>>
    /\ last_reported_cars # second.last_reported_cars

(***************************************************************************)
(* C14  Per-frame failures are local: when an analyze call fails partway   *)
(* (a detection carries no distance_m), the tracked vehicle table, the     *)
(* tracked pedestrian table and the traffic-light state and distance       *)
(* carried into the next frame are exactly what they were before the call. *)
(***************************************************************************)
C14_FailureIsLocal ==
    [][(IsAnalyzeStep /\ FailingStage([dets |-> detections', rgb |-> frame_rgb']) # "none")
        => /\ last_reported_cars' = last_reported_cars
           /\ last_reported_persons' = last_reported_persons
           /\ last_traffic_light_state' = last_traffic_light_state
           /\ last_traffic_light_distance' = last_traffic_light_distance
      ]_vars

(***************************************************************************)
(* C15  On a frame where the reference anchor is absent the frame's        *)
(* detections are still produced, one per detected box, carrying the raw   *)
(* depth and no distance_m, and analyze completes for the frame.           *)
(***************************************************************************)
C15_AnchorlessDetections ==
    ~scene.anchor =>
        /\ Len(detections) = Len(scene.boxes)
        /\ \A i \in 1..Len(detections) :
              /\ ~HasDistance(detections[i])
              /\ detections[i].label = scene.boxes[i].label
              /\ detections[i].bbox = scene.boxes[i].bbox
              /\ detections[i].midas_depth = scene.boxes[i].midas_depth

(***************************************************************************)
(* C16  analyze is not reentrant.  When two analyze calls on one analyzer  *)
(* are serialized, the analyzer's final state and the alert list each call *)
(* returns are those of one of the two serial orders; when they interleave *)
(* without serialization an outcome is reachable that neither serial order *)
(* produces (the witness: a lost frame-counter increment).                 *)
(***************************************************************************)
BothReturned == \A t \in Threads : calls.running[t].pc = "done"

\* final attributes, alerts returned to thread 1, alerts returned to thread 2
Outcome ==
    <<[Self EXCEPT !.alerts = <<>>], calls.running[1].alerts, calls.running[2].alerts>>

SerialOutcomes ==
    LET f1 == calls.running[1].f
        f2 == calls.running[2].f
        start == calls.before
        first1 == Analyzed(start, f1)
        then2 == Analyzed(first1, f2)
        first2 == Analyzed(start, f2)
        then1 == Analyzed(first2, f1)
    IN  {<<[then2 EXCEPT !.alerts = <<>>], first1.alerts, then2.alerts>>,
         <<[then1 EXCEPT !.alerts = <<>>], then1.alerts, first2.alerts>>}

C16_SerializedIsSerial ==
    (BothReturned /\ calls.serialized) => Outcome \in SerialOutcomes

\* two unserialized calls have returned, the counter has advanced by one only
\* and the outcome is that of no serial order
C16_Witness ==
    /\ BothReturned
    /\ ~calls.serialized
    /\ frame_counter = calls.before.frame_counter + 1
    /\ Outcome \notin SerialOutcomes

\* the same holds of the tables: an unserialized outcome whose counter is right
\* and whose tracked vehicle table is that of no serial order
C16_LostTableUpdate ==
    /\ BothReturned
    /\ ~calls.serialized
    /\ frame_counter = calls.before.frame_counter + 2
    /\ \A o \in SerialOutcomes : o[1].last_reported_cars # last_reported_cars

\* serialized calls do run: both returned, each order taken
C16_SerializedRuns ==
    /\ BothReturned
    /\ calls.serialized
    /\ calls.running[1].f # calls.running[2].f
    /\ calls.before.frame_counter = 1

(***************************************************************************)
(* C24  With several traffic lights or stop signs in one frame, the one    *)
(* with the minimum distance_m is selected: the derived state, the         *)
(* persisted distance and the alert's fields are those of a light no other *)
(* light of the frame is nearer than, and the lights farther away have no  *)
(* influence: state, distance and alert are those the frame gives with the *)
(* farther lights taken out of it.                                         *)
(***************************************************************************)
NearestOnes(lights) ==
    {l \in Range(lights) : \A k \in Range(lights) : l.distance_m <= k.distance_m}

\* the frame without the lights that another light of the frame is nearer than
WithoutFarther(dets, rgb) ==
    SelectSeqBy(dets, {d \in Range(dets) :
        IsTrafficLight(d) =>
            \A k \in Range(TrafficLights(dets, rgb)) : d.distance_m <= k.distance_m})

C24_NearestLightDecides ==
    [][(IsAnalyzeStep /\ HasLight(detections', frame_rgb')) =>
        /\ \E l \in NearestOnes(TrafficLights(detections', frame_rgb')) :
              /\ last_traffic_light_state' = DeriveState(l).state
              /\ last_traffic_light_distance' = Some(l.distance_m)
              /\ \A a \in Range(WithPriority(alerts', 1)) :
                    a = TrafficLightAlert(l, DeriveState(l))
        /\ LET alone == _check_traffic_lights(
                            WithoutFarther(detections', frame_rgb'), frame_rgb',
                            last_traffic_light_state, last_traffic_light_distance)
           IN  /\ WithPriority(alerts', 1) = alone.alert
               /\ last_traffic_light_state' = alone.state
               /\ last_traffic_light_distance' = alone.distance]_vars

\* a red signal at 2.8 m listed before a plain traffic light at 2.0 m: the
\* state is the nearer light's and the alert carries its distance
C24_Witness ==
    /\ Len(detections) = 2
    /\ detections[1].label = "R_Signal" /\ detections[1].distance_m = 28
    /\ detections[2].label = "traffic light" /\ detections[2].distance_m = 20
    /\ last_traffic_light_state = "unknown"
    /\ last_traffic_light_distance = Some(20)
    /\ \E a \in Range(alerts) : a.priority = 1 /\ a.distance_m = 20 /\ a.state = "unknown"

(***************************************************************************)
(* C26  After every return of analyze each entry of both tracked tables    *)
(* has last_seen_frame equal to the frame counter and each table has at    *)
(* most as many entries as the frame has close detections of its class,    *)
(* so that _cleanup_expired_objects removes no entry: the table it is      *)
(* given in analyze is the table it returns.                               *)
(***************************************************************************)
AllSeenNow(table, fc) == \A i \in 1..Len(table) : table[i].frame = fc

Overlapping(bbox, tracked) ==
    {i \in 1..Len(tracked) : IouAboveThreshold(_calculate_iou(bbox, tracked[i].bbox))}

\* iou1 >= iou2, on the exact fractions (denominators are positive)
IouAtLeast(iou1, iou2) == iou1[1] * iou2[2] >= iou2[1] * iou1[2]

HighestIou(bbox, tracked) ==
    {i \in Overlapping(bbox, tracked) :
        \A j \in Overlapping(bbox, tracked) :
            IouAtLeast(_calculate_iou(bbox, tracked[i].bbox),
                       _calculate_iou(bbox, tracked[j].bbox))}

MatchedToBest(close, tracked, table) ==
    \A i \in 1..Len(close) :
        Cardinality(Overlapping(close[i].bbox, tracked)) >= 2 =>
            \E e \in Range(table) :
                /\ e.bbox = close[i].bbox
                /\ e.distance = close[i].distance_m
                /\ \E b \in HighestIou(close[i].bbox, tracked) : e.id = tracked[b].id

C22_BestIouMatch ==
    [][IsAnalyzeStep =>
        /\ MatchedToBest(CloseCars(detections'), last_reported_cars,
                         last_reported_cars')
        /\ MatchedToBest(ClosePersons(detections'), last_reported_persons,
                         last_reported_persons')]_vars

\* the case does happen and the first overlapping entry is not the best one:
\* a vehicle standing still where the second tracked vehicle was is stored
\* under the identity of the first and raises an alert
C22_FirstTaken ==
    /\ Len(detections) = 1 /\ detections[1].bbox = BoxShift
    /\ detections[1].distance_m = 28
    /\ Len(last_reported_cars) = 1
    /\ last_reported_cars[1].id = <<"car", BoxLeft[1], BoxLeft[2], 1>>
    /\ last_reported_cars[1].bbox = BoxShift
    /\ frame_counter = 2
    /\ Len(WithPriority(alerts, 2)) = 1

(***************************************************************************)
(* C23  A close detection matched to a tracked object, its distance within *)
(* 0.5 m of the distance the object is tracked with, raises no alert, and  *)
(* after the frame the table holds the object's entry under the same       *)
(* identity with the bbox and the distance of that detection and the       *)
(* current frame counter as last_seen_frame.                               *)
(***************************************************************************)
Quiet(d, tracked) ==
    LET m == FirstMatch(d.bbox, tracked)
    IN  m # 0 /\ ~DistanceChanged(d.distance_m, tracked[m].distance)

Refreshed(d, tracked, table, fc) ==
    \E e \in Range(table) :
        /\ e.id = tracked[FirstMatch(d.bbox, tracked)].id
        /\ e.bbox = d.bbox
        /\ e.distance = d.distance_m
        /\ e.frame = fc

QuietAndRefreshed(close, tracked, table, fc, as) ==
    /\ Len(as) = Cardinality({i \in 1..Len(close) : ~Quiet(close[i], tracked)})
    /\ \A i \in 1..Len(close) :
          Quiet(close[i], tracked) => Refreshed(close[i], tracked, table, fc)

C23_QuietMatchRefreshes ==
    [][IsAnalyzeStep =>
        /\ QuietAndRefreshed(CloseCars(detections'), last_reported_cars,
                             last_reported_cars', frame_counter',
                             WithPriority(alerts', 2))
        /\ QuietAndRefreshed(ClosePersons(detections'), last_reported_persons,
                             last_reported_persons', frame_counter',
                             WithPriority(alerts', 3))]_vars

\* no two close detections of the frame are matched to one tracked object
OneToOne(close, tracked) ==
    \A i, j \in 1..Len(close) :
        (i # j /\ FirstMatch(close[i].bbox, tracked) # 0)
            => FirstMatch(close[i].bbox, tracked) # FirstMatch(close[j].bbox, tracked)

\* the same, for the frames that match each tracked object at most once
C23_QuietMatchRefreshesOneToOne ==
    [][IsAnalyzeStep =>
        /\ OneToOne(CloseCars(detections'), last_reported_cars) =>
              QuietAndRefreshed(CloseCars(detections'), last_reported_cars,
                                last_reported_cars', frame_counter',
                                WithPriority(alerts', 2))
        /\ OneToOne(ClosePersons(detections'), last_reported_persons) =>
              QuietAndRefreshed(ClosePersons(detections'), last_reported_persons,
                                last_reported_persons', frame_counter',
                                WithPriority(alerts', 3))]_vars

\* a quiet match does happen: a vehicle tracked since frame 1 at 2.0 m is seen
\* at 2.5 m on frame 2, raises nothing and is stored with 2.5 m and frame 2
C23_QuietMatch ==
    /\ frame_counter = 2
    /\ Len(detections) = 1 /\ detections[1].label = "car"
    /\ detections[1].distance_m = 25
    /\ alerts = <<>>
    /\ Len(last_reported_cars) = 1
    /\ last_reported_cars[1].id[4] = 1
    /\ last_reported_cars[1].distance = 25
    /\ last_reported_cars[1].frame = 2

Cells(bbox) ==
    {<<x, y>> : x \in bbox[1]..(bbox[1] + bbox[3] - 1),
                y \in bbox[2]..(bbox[2] + bbox[4] - 1)}

Area(bbox) == bbox[3] * bbox[4]

Shared(bbox1, bbox2) == Cardinality(Cells(bbox1) \cap Cells(bbox2))

Covered(bbox1, bbox2) == Cardinality(Cells(bbox1) \cup Cells(bbox2))

C25_IouIsAreaRatio ==
    overlapped.pc = "done" =>
        LET b1 == overlapped.bbox1
            b2 == overlapped.bbox2
            iou == overlapped.result
        IN  /\ iou[2] > 0
            /\ iou[1] * Covered(b1, b2) = Shared(b1, b2) * iou[2]
            /\ Covered(b1, b2) = 0 => iou[1] = 0
            /\ iou[1] * _calculate_iou(b2, b1)[2] = _calculate_iou(b2, b1)[1] * iou[2]
            /\ 0 <= iou[1] /\ iou[1] <= iou[2]
            /\ (b1 = b2 /\ Area(b1) > 0) => iou[1] = iou[2]
            /\ Shared(b1, b2) = 0 => iou[1] = 0
            /\ (b1[3] = b2[3] /\ b1[4] = b2[4] /\ Area(b1) > 0
                   /\ 2 * Shared(b1, b2) = Area(b1)) => 3 * iou[1] = iou[2]
            /\ (Area(b1) = 0 \/ Area(b2) = 0) => iou[1] = 0

\* two boxes of no area, one on the other: the union is 0 and 0 is returned
C25_Witness ==
    /\ overlapped.pc = "done"
    /\ overlapped.bbox1 = <<0, 0, 0, 2>>
    /\ overlapped.bbox2 = <<0, 0, 0, 2>>
    /\ overlapped.result = <<0, 1>>

\* two boxes of 2 x 2, one a pixel to the right of the other: 2 / 6
C25_HalfOverlap ==
    /\ overlapped.pc = "done"
    /\ overlapped.bbox1 = <<0, 0, 2, 2>>
    /\ overlapped.bbox2 = <<1, 0, 2, 2>>
    /\ overlapped.result = <<2, 6>>

(***************************************************************************)
(* C21  classify_light_color never raises for a bbox whose intersection    *)
(* with the image is empty: it returns dominant "unknown" and empty        *)
(* percentages.  For a non-empty crop it returns the percentages of the    *)
(* crop's pixels in the red, green and white masks and, as dominant, a key *)
(* of the largest percentage, or "unknown" when that percentage is below   *)
(* 5%.  The crop is taken independently, as the cells of the bbox that are *)
(* cells of the image.                                                     *)
(***************************************************************************)
ImageCells(img) == {<<x, y>> : x \in 0..(img.width - 1), y \in 0..(img.height - 1)}

Inside(img, bbox) == Cells(bbox) \cap ImageCells(img)

Shares(img, cells) ==
    <<countNonZero(img, cells, "red"),
      countNonZero(img, cells, "green"),
      countNonZero(img, cells, "white")>>

C21_WeakWinner ==
    /\ classified.pc = "done"
    /\ classified.bbox = <<0, 0, 7, 4>> /\ classified.img_rgb.width = 7
    /\ classified.img_rgb.spot = "red" /\ classified.img_rgb.ground = "black"
    /\ classified.result.percentages[1] = <<100, 28>>
    /\ classified.result.dominant = "unknown"

\* one red pixel in 20 is 5%, not below it: red
C21_FivePercent ==
    /\ classified.pc = "done"
    /\ classified.bbox = <<0, 0, 5, 4>> /\ classified.img_rgb.width = 7
    /\ classified.img_rgb.spot = "red" /\ classified.img_rgb.ground = "black"
    /\ classified.result.percentages[1] = <<100, 20>>
    /\ classified.result.dominant = "red"

\* a yellow spot is in no mask and yellow is never returned; on white ground
\* the answer is white
C21_YellowOnWhite ==
    /\ classified.pc = "done"
    /\ classified.bbox = <<0, 0, 5, 4>> /\ classified.img_rgb.width = 7
    /\ classified.img_rgb.spot = "yellow" /\ classified.img_rgb.ground = "white"
    /\ classified.result.dominant = "white"

====
